---- MODULE Spec2Model ----
(***************************************************************************)
(* Model of the slicing engine of the 3D printer simulator                 *)
(* (src/js/STLSlicer.js, the driver sliceSTL of src/js/main.js).           *)
(*                                                                         *)
(* Numbers.  The JavaScript works on floating point millimetres.  The      *)
(* model works on integers: one unit is 1/40 mm (0.025 mm), so 0.2 mm is   *)
(* 8 units and 20 mm is 800 units.  The inputs are drawn from grids on     *)
(* which every division the code makes is exact, so \div is the code's /.  *)
(* A constant of the code that is no whole number of units is kept as a    *)
(* fraction Num/Den and the comparison is cross-multiplied.                *)
(***************************************************************************)
EXTENDS Integers, Sequences, FiniteSets, TLC

VARIABLES
    loadedModels,     \* main.js loadedModels: the models on the build plate
    mesh,             \* STLSlicer.mesh: the sequence of triangles
    layerHeight,      \* STLSlicer.layerHeight
    topBottomLayers,  \* STLSlicer.topBottomLayers
    nozzleDiameter,   \* STLSlicer.nozzleDiameter
    op,               \* the operation under way; "idle" before the call
    args,             \* the arguments of the call
    result,           \* what the call returned (<<>> before it returns)
    currentGCode,     \* main.js currentGCode: the lines of the loaded program
    commands,         \* PrinterSimulator.commands: the simulator's command list
    toast             \* the status toast on screen: its type and message

vars == <<loadedModels, mesh, layerHeight, topBottomLayers, nozzleDiameter, op, args, result,
          currentGCode, commands, toast>>
slicerVars == <<mesh, layerHeight, topBottomLayers, nozzleDiameter>>
uiVars == <<currentGCode, commands, toast>>
noToast == [type |-> "none", message |-> ""]
nothingLoaded ==
    /\ currentGCode = <<>>
    /\ commands = <<>>
    /\ toast = noToast

(***************************************************************************)
(* Units and arithmetic helpers                                            *)
(***************************************************************************)
Mm(n) == n * 40

Abs(a) == IF a < 0 THEN -a ELSE a
Min(a, b) == IF a < b THEN a ELSE b
Max(a, b) == IF a > b THEN a ELSE b
SetMin(S) == CHOOSE m \in S : \A s \in S : m <= s
SetMax(S) == CHOOSE m \in S : \A s \in S : m >= s

\* Math.ceil(a / b) for b > 0
Ceil(a, b) == IF a % b = 0 THEN a \div b ELSE (a \div b) + 1

\* Math.sqrt on a perfect square; the floor of the root elsewhere
RECURSIVE SqrtBetween(_, _, _)
\* the largest r in lo..hi with r * r <= n, by bisection
SqrtBetween(n, lo, hi) ==
    IF lo >= hi THEN lo
    ELSE LET mid == (lo + hi + 1) \div 2
         IN IF mid * mid <= n THEN SqrtBetween(n, mid, hi) ELSE SqrtBetween(n, lo, mid - 1)
\* the whole part of the square root (exact on the squares, which is what the
\* axis-parallel segments of the specifications below give)
Sqrt(n) == SqrtBetween(n, 0, Min(n, 46340))

RECURSIVE Gcd(_, _)
Gcd(a, b) == IF b = 0 THEN a ELSE Gcd(b, a % b)

RECURSIVE Concat(_)
Concat(ss) == IF ss = <<>> THEN <<>> ELSE Head(ss) \o Concat(Tail(ss))

Range(s) == {s[i] : i \in 1..Len(s)}

V3(x, y, z) == [x |-> x, y |-> y, z |-> z]
P2(x, y) == [x |-> x, y |-> y]
Tri(a, b, c) == [v1 |-> a, v2 |-> b, v3 |-> c]
Seg(a, b) == [start |-> a, end |-> b]

(***************************************************************************)
(* Program constants, in units of 1/40 mm                                  *)
(***************************************************************************)
\* 0.0001 mm, the division guard of sliceAtZ: |dz| > 1/250 unit
sliceGuardNum == 1
sliceGuardDen == 250

(***************************************************************************)
(* getBoundingBox                                                          *)
(***************************************************************************)
Vertices(m) == UNION {{m[i].v1, m[i].v2, m[i].v3} : i \in 1..Len(m)}

getBoundingBox(m) ==
    IF Len(m) = 0 THEN [null |-> TRUE]
    ELSE LET vs == Vertices(m)
             minX == SetMin({v.x : v \in vs})
             minY == SetMin({v.y : v \in vs})
             minZ == SetMin({v.z : v \in vs})
             maxX == SetMax({v.x : v \in vs})
             maxY == SetMax({v.y : v \in vs})
             maxZ == SetMax({v.z : v \in vs})
         IN [null |-> FALSE,
             min |-> V3(minX, minY, minZ),
             max |-> V3(maxX, maxY, maxZ),
             size |-> V3(maxX - minX, maxY - minY, maxZ - minZ)]

(***************************************************************************)
(* sliceAtZ                                                                *)
(***************************************************************************)
\* line 199: the edge's endpoints lie on either side of the plane
edgeSpansPlane(va, vb, z) ==
    (va.z <= z /\ vb.z >= z) \/ (va.z >= z /\ vb.z <= z)

\* line 200: Math.abs(va.z - vb.z) > 0.0001
edgeNotFlat(va, vb) == Abs(va.z - vb.z) * sliceGuardDen > sliceGuardNum

\* lines 201-205
edgeIntersection(va, vb, z) ==
    P2(va.x + ((z - va.z) * (vb.x - va.x)) \div (vb.z - va.z),
       va.y + ((z - va.z) * (vb.y - va.y)) \div (vb.z - va.z))

triangleEdges(tri) == << <<tri.v1, tri.v2>>, <<tri.v2, tri.v3>>, <<tri.v3, tri.v1>> >>

RECURSIVE edgeIntersections(_, _)
edgeIntersections(edges, z) ==
    IF edges = <<>> THEN <<>>
    ELSE LET va == Head(edges)[1]
             vb == Head(edges)[2]
             rest == edgeIntersections(Tail(edges), z)
         IN IF edgeSpansPlane(va, vb, z) /\ edgeNotFlat(va, vb)
            THEN <<edgeIntersection(va, vb, z)>> \o rest
            ELSE rest

\* mutant: a segment from the first two of two or more intersections
triangleSegmentsTwoOrMore(tri, z) ==
    LET intersections == edgeIntersections(triangleEdges(tri), z)
    IN IF Len(intersections) >= 2
       THEN <<Seg(intersections[1], intersections[2])>>
       ELSE <<>>

triangleSegments(tri, z) ==
    LET intersections == edgeIntersections(triangleEdges(tri), z)
    IN IF Len(intersections) = 2
       THEN <<Seg(intersections[1], intersections[2])>>
       ELSE <<>>

RECURSIVE sliceAtZ(_, _)
sliceAtZ(m, z) ==
    IF m = <<>> THEN <<>>
    ELSE triangleSegments(Head(m), z) \o sliceAtZ(Tail(m), z)

(***************************************************************************)
(* sliceMesh                                                               *)
(***************************************************************************)
\* lines 160-161: the plane of layer layerNum and what it cuts
planeLayer(m, lh, minZ, layerNum) ==
    LET z == minZ + (layerNum + 1) * lh
    IN [layerNum |-> layerNum, z |-> z, segments |-> sliceAtZ(m, z)]

\* mutant: a plane that meets no triangle is kept as an empty layer
sliceLayersKeepEmpty(m, lh, minZ, numLayers) ==
    IF numLayers <= 0 THEN <<>>
    ELSE [k \in 1..numLayers |-> planeLayer(m, lh, minZ, k - 1)]

\* mutant: the kept layers are numbered by their place in the list
sliceLayersRenumbered(m, lh, minZ, numLayers) ==
    IF numLayers <= 0 THEN <<>>
    ELSE LET kept == SelectSeq([k \in 1..numLayers |-> planeLayer(m, lh, minZ, k - 1)],
                               LAMBDA layer : Len(layer.segments) > 0)
         IN [i \in 1..Len(kept) |-> [kept[i] EXCEPT !.layerNum = i - 1]]

\* lines 159-170: the planes in order, those without segments left out
sliceLayers(m, lh, minZ, numLayers) ==
    IF numLayers <= 0 THEN <<>>
    ELSE SelectSeq([k \in 1..numLayers |-> planeLayer(m, lh, minZ, k - 1)],
                   LAMBDA layer : Len(layer.segments) > 0)

sliceMesh(m, lh) ==
    LET bbox == getBoundingBox(m)
        numLayers == Ceil(bbox.size.z, lh)
    IN sliceLayers(m, lh, bbox.min.z, numLayers)

(***************************************************************************)
(* segmentsToPerimeter                                                     *)
(***************************************************************************)
\* 0.01 mm, the stitching tolerance: 2/5 unit
toleranceNum == 2
toleranceDen == 5

\* Math.hypot(a.x - b.x, a.y - b.y) < tolerance
withinTolerance(a, b) ==
    ((a.x - b.x) * (a.x - b.x) + (a.y - b.y) * (a.y - b.y)) * toleranceDen * toleranceDen
        < toleranceNum * toleranceNum

RemoveAt(s, i) == SubSeq(s, 1, i - 1) \o SubSeq(s, i + 1, Len(s))

\* lines 730-750: the first unused segment one of whose ends meets lastPoint; 0 if none
firstConnection(unusedSegments, lastPoint) ==
    LET hits == {i \in 1..Len(unusedSegments) :
                    \/ withinTolerance(lastPoint, unusedSegments[i].start)
                    \/ withinTolerance(lastPoint, unusedSegments[i].end)}
    IN IF hits = {} THEN 0 ELSE SetMin(hits)

\* mutant: the chain stops when it is back at its first point, without repeating it
RECURSIVE extendPathDropClosing(_, _, _)
extendPathDropClosing(currentPath, lastPoint, unusedSegments) ==
    LET i == firstConnection(unusedSegments, lastPoint)
    IN IF unusedSegments = <<>> \/ i = 0
       THEN [path |-> currentPath, unused |-> unusedSegments]
       ELSE LET seg == unusedSegments[i]
                next == IF withinTolerance(lastPoint, seg.start) THEN seg.end ELSE seg.start
            IN IF withinTolerance(next, currentPath[1])
               THEN [path |-> currentPath, unused |-> RemoveAt(unusedSegments, i)]
               ELSE extendPathDropClosing(Append(currentPath, P2(next.x, next.y)), next,
                                          RemoveAt(unusedSegments, i))

\* lines 727-751: extend the chain until no segment connects or none is left
RECURSIVE extendPath(_, _, _)
extendPath(currentPath, lastPoint, unusedSegments) ==
    LET i == firstConnection(unusedSegments, lastPoint)
    IN IF unusedSegments = <<>> \/ i = 0
       THEN [path |-> currentPath, unused |-> unusedSegments]
       ELSE LET seg == unusedSegments[i]
                next == IF withinTolerance(lastPoint, seg.start) THEN seg.end ELSE seg.start
            IN extendPath(Append(currentPath, P2(next.x, next.y)), next,
                          RemoveAt(unusedSegments, i))

\* lines 716-757: every chain built, kept or not, in the order built
RECURSIVE traceChains(_)
traceChains(unusedSegments) ==
    IF unusedSegments = <<>> THEN <<>>
    ELSE LET firstSeg == Head(unusedSegments)
             start == <<P2(firstSeg.start.x, firstSeg.start.y), P2(firstSeg.end.x, firstSeg.end.y)>>
             r == extendPath(start, firstSeg.end, Tail(unusedSegments))
         IN <<r.path>> \o traceChains(r.unused)

\* mutant: the splice takes the connected segment and the one after it
spliceTwo(unusedSegments, i) ==
    SubSeq(unusedSegments, 1, i - 1) \o SubSeq(unusedSegments, i + 2, Len(unusedSegments))

\* lines 739, 746: unusedSegments.splice(i, 1)
splice(unusedSegments, i) == RemoveAt(unusedSegments, i)

\* mutant: every chain becomes a path
keepPathAlways(currentPath) == TRUE

\* line 754: only chains of at least 3 points become paths
keepPath(currentPath) == Len(currentPath) >= 3

\* mutant: the chains are built by shifting and splicing the caller's own list,
\* which ends empty
segmentsLeftConsumed(segments) == <<>>

\* line 713: const unusedSegments = [...segments]; shift and splice work on the
\* copy, and the points pushed are new objects, so the caller's list is as before
segmentsLeftToCaller(segments) == segments

\* the layer list after a generator has traced every layer of it (lines 497, 598)
layersLeftToCaller(layers) ==
    [k \in 1..Len(layers) |->
        [layers[k] EXCEPT !.segments = segmentsLeftToCaller(layers[k].segments)]]

segmentsToPerimeter(segments) ==
    LET chains == traceChains(segments)
    IN SelectSeq(chains, keepPath)

(***************************************************************************)
(* Infill: point-in-polygon, scan line intersections, generateLayerInfill  *)
(***************************************************************************)
getLayerBoundingBox(perimeter) ==
    IF Len(perimeter) = 0 THEN [null |-> TRUE]
    ELSE [null |-> FALSE,
          minX |-> SetMin({perimeter[i].x : i \in 1..Len(perimeter)}),
          minY |-> SetMin({perimeter[i].y : i \in 1..Len(perimeter)}),
          maxX |-> SetMax({perimeter[i].x : i \in 1..Len(perimeter)}),
          maxY |-> SetMax({perimeter[i].y : i \in 1..Len(perimeter)})]

\* lines 790-791, edge from polygon[j] to polygon[i]
rayCrossesEdge(point, pi, pj) ==
    /\ (pi.y > point.y) # (pj.y > point.y)
    /\ point.x < ((pj.x - pi.x) * (point.y - pi.y)) \div (pj.y - pi.y) + pi.x

isPointInPolygon(point, polygon) ==
    LET n == Len(polygon)
        prev(i) == IF i = 1 THEN n ELSE i - 1
        crossings == {i \in 1..n : rayCrossesEdge(point, polygon[i], polygon[prev(i)])}
    IN Cardinality(crossings) % 2 = 1

isPointInSolidGeometry(point, paths) ==
    Cardinality({k \in 1..Len(paths) : isPointInPolygon(point, paths[k])}) % 2 = 1

\* 0.0001 mm, the division guard of the scan line tests: 1/250 unit
scanGuardNum == 1
scanGuardDen == 250

\* lines 832-846; a and b are the coordinates along and across the scan line
RECURSIVE lineCrossingsFrom(_, _, _, _)
lineCrossingsFrom(c, polygon, i, horizontal) ==
    IF i > Len(polygon) THEN <<>>
    ELSE LET p1 == polygon[i]
             p2 == polygon[(i % Len(polygon)) + 1]
             a1 == IF horizontal THEN p1.y ELSE p1.x
             a2 == IF horizontal THEN p2.y ELSE p2.x
             b1 == IF horizontal THEN p1.x ELSE p1.y
             b2 == IF horizontal THEN p2.x ELSE p2.y
             rest == lineCrossingsFrom(c, polygon, i + 1, horizontal)
         IN IF /\ (a1 < c /\ a2 >= c) \/ (a1 >= c /\ a2 < c)
               /\ Abs(a2 - a1) * scanGuardDen > scanGuardNum
            THEN <<b1 + ((c - a1) * (b2 - b1)) \div (a2 - a1)>> \o rest
            ELSE rest

findLinePolygonIntersections(y, polygon) == lineCrossingsFrom(y, polygon, 1, TRUE)
findVerticalLinePolygonIntersections(x, polygon) == lineCrossingsFrom(x, polygon, 1, FALSE)

\* Array.prototype.sort((a, b) => a - b)
RECURSIVE Insert(_, _)
Insert(x, s) ==
    IF s = <<>> THEN <<x>>
    ELSE IF x < Head(s) THEN <<x>> \o s ELSE <<Head(s)>> \o Insert(x, Tail(s))
RECURSIVE sortAscending(_)
sortAscending(s) == IF s = <<>> THEN <<>> ELSE Insert(Head(s), sortAscending(Tail(s)))

\* toFixed(3) and toFixed(2) of a length, and a length printed in full:
\* the text's number, in 0.001 mm
numberText(v) == v * 25
toFixed3(v) == v * 25
toFixed2(v) == IF v >= 0 THEN 10 * ((v * 25 + 5) \div 10) ELSE -(10 * ((-v * 25 + 5) \div 10))

G0(x, y) == [cmd |-> "G0", X |-> x, Y |-> y]
G1E(x, y, e) == [cmd |-> "G1", X |-> x, Y |-> y, E |-> e]
G1EF(x, y, e, f) == [cmd |-> "G1", X |-> x, Y |-> y, E |-> e, F |-> f]
G1ZF(z, f) == [cmd |-> "G1", Z |-> z, F |-> f]
Comment(text, n) == [cmd |-> ";", text |-> text, n |-> n]

inset == 8              \* 0.2 mm
minSpacing == 80        \* 2.0 mm
maxSpacing == 800       \* 20 mm
minFillLength == 4      \* 0.1 mm
lineEndSlackNum == 2    \* 0.01 mm = 2/5 unit
lineEndSlackDen == 5
fillFeedrate == 1500

\* lines 892-903
infillSpacing(nozzle, density) ==
    IF density >= 100 THEN (nozzle * 875) \div 1000
    ELSE minSpacing + ((100 - density) * (maxSpacing - minSpacing)) \div 100

\* mutant: the pair is long enough; its midpoint is not looked at
emitsFillAnywhere(midpoint, startC, endC, paths) ==
    Abs(endC - startC) > minFillLength

\* lines 945 and 993: the pair is long enough and its midpoint is solid
emitsFill(midpoint, startC, endC, paths) ==
    Abs(endC - startC) > minFillLength /\ isPointInSolidGeometry(midpoint, paths)

\* lines 935-955 and 983-1003: pair the sorted crossings of scan line i at coordinate c
RECURSIVE fillPairs(_, _, _, _, _, _)
fillPairs(xs, j, c, i, paths, horizontal) ==
    IF j + 1 > Len(xs) THEN <<>>
    ELSE LET startC == xs[j]
             endC == xs[j + 1]
             mid == (startC + endC) \div 2
             midpoint == IF horizontal THEN P2(mid, c) ELSE P2(c, mid)
             first == IF i % 2 = 0 THEN startC ELSE endC
             second == IF i % 2 = 0 THEN endC ELSE startC
             lines == IF horizontal
                      THEN <<G0(toFixed3(first), toFixed3(c)),
                             G1EF(toFixed3(second), toFixed3(c), 0, fillFeedrate)>>
                      ELSE <<G0(toFixed3(c), toFixed3(first)),
                             G1EF(toFixed3(c), toFixed3(second), 0, fillFeedrate)>>
             rest == fillPairs(xs, j + 2, c, i, paths, horizontal)
         IN IF emitsFill(midpoint, startC, endC, paths) THEN lines \o rest ELSE rest

\* mutant: the crossings are paired in the order found
scanCrossingsUnsorted(c, paths, horizontal) ==
    Concat([k \in 1..Len(paths) |-> lineCrossingsFrom(c, paths[k], 1, horizontal)])

scanCrossings(c, paths, horizontal) ==
    sortAscending(Concat([k \in 1..Len(paths) |-> lineCrossingsFrom(c, paths[k], 1, horizontal)]))

RECURSIVE scanLines(_, _, _, _, _, _, _)
scanLines(i, numLines, lo, hi, spacing, paths, horizontal) ==
    LET c == lo + i * spacing
    IN IF i > numLines \/ c * lineEndSlackDen > hi * lineEndSlackDen + lineEndSlackNum
       THEN <<>>
       ELSE fillPairs(scanCrossings(c, paths, horizontal), 1, c, i, paths, horizontal)
            \o scanLines(i + 1, numLines, lo, hi, spacing, paths, horizontal)

generateLayerInfill(bbox, nozzle, pattern, density, paths, angle) ==
    IF bbox.null \/ density = 0 THEN <<>>
    ELSE LET spacing == infillSpacing(nozzle, density)
             horizontal == angle # 90
             lo == (IF horizontal THEN bbox.minY ELSE bbox.minX) + inset
             hi == (IF horizontal THEN bbox.maxY ELSE bbox.maxX) - inset
             numLines == Ceil(hi - lo, spacing)
         IN scanLines(0, numLines, lo, hi, spacing, paths, horizontal)

(***************************************************************************)
(* detectHorizontalSurfaces                                                *)
(* A surface height is the mean of three vertex heights; it is kept        *)
(* tripled (v1.z + v2.z + v3.z) so that it stays a whole number, and every *)
(* comparison against it is tripled on the other side.                     *)
(***************************************************************************)
\* lines 247-255: the cross product of the two edge vectors
triangleNormal(tri) ==
    LET e1 == V3(tri.v2.x - tri.v1.x, tri.v2.y - tri.v1.y, tri.v2.z - tri.v1.z)
        e2 == V3(tri.v3.x - tri.v1.x, tri.v3.y - tri.v1.y, tri.v3.z - tri.v1.z)
    IN V3(e1.y * e2.z - e1.z * e2.y,
          e1.z * e2.x - e1.x * e2.z,
          e1.x * e2.y - e1.y * e2.x)

\* lines 258-266: length # 0 and |normal.z| / length > 0.5, that is
\* 3 * nz^2 > nx^2 + ny^2; the vector is first divided by the common divisor
\* of its components, which leaves the direction (and the quotient) unchanged
facesUpOrDown(n) ==
    LET g == Gcd(Gcd(Abs(n.x), Abs(n.y)), Abs(n.z))
    IN /\ g # 0
       /\ 3 * (n.z \div g) * (n.z \div g)
            > (n.x \div g) * (n.x \div g) + (n.y \div g) * (n.y \div g)

avgZ3(tri) == tri.v1.z + tri.v2.z + tri.v3.z

\* lines 274-284 and 288-298: is a surface within one layer height already listed
surfaceKnown(surfaces3, z3, lh) ==
    \E k \in 1..Len(surfaces3) : Abs(surfaces3[k] - z3) < 3 * lh

RECURSIVE collectSurfaces(_, _, _, _)
collectSurfaces(m, lh, top3, bottom3) ==
    IF m = <<>> THEN [topSurfaces |-> sortAscending(top3),
                      bottomSurfaces |-> sortAscending(bottom3)]
    ELSE LET tri == Head(m)
             n == triangleNormal(tri)
             z3 == avgZ3(tri)
         IN IF ~facesUpOrDown(n) THEN collectSurfaces(Tail(m), lh, top3, bottom3)
            ELSE IF n.z > 0
                 THEN collectSurfaces(Tail(m), lh,
                        IF surfaceKnown(top3, z3, lh) THEN top3 ELSE Append(top3, z3), bottom3)
                 ELSE collectSurfaces(Tail(m), lh, top3,
                        IF surfaceKnown(bottom3, z3, lh) THEN bottom3 ELSE Append(bottom3, z3))

detectHorizontalSurfaces(m, lh) == collectSurfaces(m, lh, <<>>, <<>>)

(***************************************************************************)
(* analyzeLayerSequences.  Indices are the code's, from 0: layer i is      *)
(* layers[i + 1].  The code only ever sets a flag, so a layer's flag is    *)
(* the disjunction of the rules that mark it.                              *)
(***************************************************************************)
segmentLength(seg) ==
    Sqrt((seg.end.x - seg.start.x) * (seg.end.x - seg.start.x)
         + (seg.end.y - seg.start.y) * (seg.end.y - seg.start.y))

RECURSIVE pathLength(_)
pathLength(segments) ==
    IF segments = <<>> THEN 0 ELSE segmentLength(Head(segments)) + pathLength(Tail(segments))

\* lines 336-338
positionalBottom(i, n, len) == i < Min(n, len)

\* mutant: the band of the last layers starts one layer late
globalTopLate(i, n, len) == i > len - n

\* line 348
globalTop(i, n, len) == i >= len - n

\* lines 392-408: pathDecrease > 10 with a positive current length, or the geometry ends
decreasesAt(layers, i, nextIndex) ==
    LET currentSegments == Len(layers[i + 1].segments)
        nextSegments == Len(layers[nextIndex + 1].segments)
        currentPathLength == pathLength(layers[i + 1].segments)
        nextPathLength == pathLength(layers[nextIndex + 1].segments)
    IN \/ currentPathLength > 0
          /\ (currentPathLength - nextPathLength) * 100 > 10 * currentPathLength
       \/ nextSegments = 0 /\ currentSegments > 0

\* lines 370-410
geometryDecreases(layers, i, n) ==
    LET lookAheadLayers == Min(n + 1, Len(layers) - i - 1)
    IN \E j \in 1..lookAheadLayers :
          i + j < Len(layers) /\ decreasesAt(layers, i, i + j)

\* mutant: a local top marks its own layer only
localTopItself(layers, k, n) ==
    /\ n > 0
    /\ ~globalTop(k, n, Len(layers))
    /\ geometryDecreases(layers, k, n)

\* lines 346-420: layer k is marked by the local top found at some layer i
localTop(layers, k, n) ==
    \E i \in 0..(Len(layers) - 1) :
        /\ Max(0, i - n + 1) <= k /\ k <= i
        /\ ~globalTop(i, n, Len(layers))
        /\ geometryDecreases(layers, i, n)

\* line 426
surfaceTolerance(n, lh) == n * lh + lh

\* mutant: only layers at or below the surface are marked
nearTopSurfaceBelowOnly(layerZ, topSurfaces3, n, lh) ==
    \E s \in 1..Len(topSurfaces3) :
        /\ Abs(topSurfaces3[s] - 3 * layerZ) < 3 * surfaceTolerance(n, lh)
        /\ 3 * layerZ <= topSurfaces3[s]

\* mutant: no layer is marked for being near an upward-facing surface
nearTopSurfaceNever(layerZ, topSurfaces3, n, lh) == FALSE

\* lines 428-442
nearTopSurface(layerZ, topSurfaces3, n, lh) ==
    \E s \in 1..Len(topSurfaces3) :
        /\ Abs(topSurfaces3[s] - 3 * layerZ) < 3 * surfaceTolerance(n, lh)
        /\ 3 * layerZ <= topSurfaces3[s] + 3 * lh

\* lines 444-457
nearBottomSurface(layerZ, bottomSurfaces3, n, lh) ==
    \E s \in 1..Len(bottomSurfaces3) :
        /\ Abs(3 * layerZ - bottomSurfaces3[s]) < 3 * surfaceTolerance(n, lh)
        /\ 3 * layerZ >= bottomSurfaces3[s] - 3 * lh

analyzeLayerSequences(m, lh, n, layers) ==
    LET surfaces == detectHorizontalSurfaces(m, lh)
        len == Len(layers)
    IN [k \in 1..len |->
          [isBottom |-> \/ positionalBottom(k - 1, n, len)
                        \/ nearBottomSurface(layers[k].z, surfaces.bottomSurfaces, n, lh),
           isTop |-> \/ globalTop(k - 1, n, len)
                     \/ localTop(layers, k - 1, n)
                     \/ nearTopSurface(layers[k].z, surfaces.topSurfaces, n, lh)]]

(***************************************************************************)
(* generateGCode and generateGCodeWithSequences                            *)
(* A line of the program is a record: cmd and the parameters it carries    *)
(* (X, Y, Z in 0.001 mm as printed, E, F, S); a comment is cmd ";" with    *)
(* its text and the number printed in it; "" is an empty line.             *)
(***************************************************************************)
nozzleTemp == 200
bedTemp == 60
travelFeedrate == 5000
perimeterFeedrate == 1500
firstPointStep == 1     \* extrusionCounter++
extrusionStep == 3      \* extrusionCounter += 3
finalLift == 400        \* the footer's z + 10 (mm)

Blank == [cmd |-> ""]
Plain(cmd) == [cmd |-> cmd]
SetTemp(cmd, t) == [cmd |-> cmd, S |-> t]
HasE(line) == "E" \in DOMAIN line

\* lines 475-486 and 573-583
header(lh, n, pattern, density, withSequences) ==
    << Comment("Generated by 3D Printer Simulator - STL Slicer", 0),
       Comment("Layer Height", numberText(lh)),
       Comment("Infill", density),
       Comment("Top/Bottom Solid Layers", n) >>
    \o (IF withSequences
        THEN <<Comment("Multi-model per-model top/bottom detection enabled", 0)>>
        ELSE <<>>)
    \o << Blank, Plain("G28"), SetTemp("M104", nozzleTemp), SetTemp("M140", bedTemp),
          G1ZF(numberText(lh), travelFeedrate), Blank >>

\* lines 553-560 and 693-699
footer(lastZ, withSequences) ==
    (IF withSequences THEN <<Blank, Comment("Print complete", 0)>> ELSE <<Comment("Finish", 0)>>)
    \o << G1ZF(numberText(lastZ + finalLift), travelFeedrate),
          SetTemp("M104", 0), SetTemp("M140", 0), Plain("G28"), Plain("M84") >>

\* mutant: the first point is written with the counter already incremented
RECURSIVE emitPointsPreIncrement(_, _, _)
emitPointsPreIncrement(path, i, counter) ==
    IF i >= Len(path) THEN [lines |-> <<>>, counter |-> counter]
    ELSE LET point == path[i + 1]
         IN IF i = 0
            THEN LET r == emitPointsPreIncrement(path, i + 1, counter + firstPointStep)
                 IN [lines |-> <<G1E(toFixed2(point.x), toFixed2(point.y),
                                     counter + firstPointStep)>> \o r.lines,
                     counter |-> r.counter]
            ELSE LET r == emitPointsPreIncrement(path, i + 1, counter + extrusionStep)
                 IN [lines |-> <<G1EF(toFixed2(point.x), toFixed2(point.y),
                                      counter + extrusionStep, perimeterFeedrate)>> \o r.lines,
                     counter |-> r.counter]

\* lines 513-522 and 617-629: the points of one path from point i (from 0) on
RECURSIVE emitPoints(_, _, _)
emitPoints(path, i, counter) ==
    IF i >= Len(path) THEN [lines |-> <<>>, counter |-> counter]
    ELSE LET point == path[i + 1]
         IN IF i = 0
            THEN LET r == emitPoints(path, i + 1, counter + firstPointStep)
                 IN [lines |-> <<G1E(toFixed2(point.x), toFixed2(point.y), counter)>> \o r.lines,
                     counter |-> r.counter]
            ELSE LET r == emitPoints(path, i + 1, counter + extrusionStep)
                 IN [lines |-> <<G1EF(toFixed2(point.x), toFixed2(point.y),
                                      counter + extrusionStep, perimeterFeedrate)>> \o r.lines,
                     counter |-> r.counter]

\* mutant: no travel move between the paths
RECURSIVE emitPathsNoTravel(_, _, _)
emitPathsNoTravel(paths, pathIdx, counter) ==
    IF pathIdx >= Len(paths) THEN [lines |-> <<>>, counter |-> counter]
    ELSE LET pts == emitPoints(paths[pathIdx + 1], 0, counter)
             r == emitPathsNoTravel(paths, pathIdx + 1, pts.counter)
         IN [lines |-> pts.lines \o r.lines, counter |-> r.counter]

\* lines 506-523 and 608-630: every path, with a travel move before each but the first
RECURSIVE emitPaths(_, _, _)
emitPaths(paths, pathIdx, counter) ==
    IF pathIdx >= Len(paths) THEN [lines |-> <<>>, counter |-> counter]
    ELSE LET path == paths[pathIdx + 1]
             travel == IF pathIdx > 0
                       THEN <<[cmd |-> "G0", X |-> toFixed2(path[1].x), Y |-> toFixed2(path[1].y),
                               text |-> "Travel to next shape"]>>
                       ELSE <<>>
             pts == emitPoints(path, 0, counter)
             r == emitPaths(paths, pathIdx + 1, pts.counter)
         IN [lines |-> travel \o pts.lines \o r.lines, counter |-> r.counter]

\* mutant: the infill lines keep the E they were generated with
renumberNothing(lines, counter) == [lines |-> lines, counter |-> counter]

\* line.replace(/E\d+/g, match => `E${extrusionCounter += 3}`) over the lines of an infill
RECURSIVE renumber(_, _)
renumber(lines, counter) ==
    IF lines = <<>> THEN [lines |-> <<>>, counter |-> counter]
    ELSE IF HasE(Head(lines))
         THEN LET r == renumber(Tail(lines), counter + extrusionStep)
              IN [lines |-> <<[Head(lines) EXCEPT !.E = counter + extrusionStep]>> \o r.lines,
                  counter |-> r.counter]
         ELSE LET r == renumber(Tail(lines), counter)
              IN [lines |-> <<Head(lines)>> \o r.lines, counter |-> r.counter]

\* the infill passes of one layer, as the lists of lines generateLayerInfill returns
\* lines 529-549 (generateGCodeWithSequences)
infillPassesWithSequences(bbox, nozzle, isSolidLayer, pattern, density, paths) ==
    IF isSolidLayer
    THEN generateLayerInfill(bbox, nozzle, "lines", 100, paths, 0)
         \o generateLayerInfill(bbox, nozzle, "lines", 100, paths, 90)
    ELSE IF density > 0
         THEN generateLayerInfill(bbox, nozzle, pattern, density, paths, 0)
         ELSE <<>>

\* lines 637-687 (generateGCode)
infillPasses(bbox, nozzle, isSolidLayer, pattern, density, paths) ==
    IF isSolidLayer
    THEN generateLayerInfill(bbox, nozzle, "lines", 100, paths, 0)
         \o generateLayerInfill(bbox, nozzle, "lines", 100, paths, 90)
    ELSE IF density > 0
         THEN IF pattern = "grid"
              THEN generateLayerInfill(bbox, nozzle, "lines", density, paths, 0)
                   \o generateLayerInfill(bbox, nozzle, "lines", density, paths, 90)
              ELSE generateLayerInfill(bbox, nozzle, pattern, density, paths, 0)
         ELSE <<>>

infillComment(seq, density) ==
    IF seq.isBottom \/ seq.isTop
    THEN <<Comment(IF seq.isBottom THEN "Solid layer (bottom)" ELSE "Solid layer (top)", 0)>>
    ELSE IF density > 0 THEN <<Comment("Sparse infill", density)>> ELSE <<>>

\* lines 491-551 and 592-691: the layers from index i (from 0) on
RECURSIVE emitLayers(_, _, _, _, _, _, _, _)
emitLayers(layers, i, sequences, nozzle, pattern, density, counter, withSequences) ==
    IF i >= Len(layers) THEN [lines |-> <<>>, counter |-> counter]
    ELSE LET layer == layers[i + 1]
             head == << Comment("Layer", layer.layerNum + 1),
                        G1ZF(toFixed3(layer.z), travelFeedrate) >>
             paths == segmentsToPerimeter(layer.segments)
             tail == IF withSequences THEN <<>> ELSE <<Blank>>
         IN IF Len(paths) = 0
            THEN LET r == emitLayers(layers, i + 1, sequences, nozzle, pattern, density,
                                     counter, withSequences)
                 IN [lines |-> head \o tail \o r.lines, counter |-> r.counter]
            ELSE LET seq == sequences[i + 1]
                     perimeters == emitPaths(paths, 0, counter)
                     bbox == getLayerBoundingBox(Concat(paths))
                     passes == IF withSequences
                               THEN infillPassesWithSequences(bbox, nozzle,
                                        seq.isBottom \/ seq.isTop, pattern, density, paths)
                               ELSE infillPasses(bbox, nozzle,
                                        seq.isBottom \/ seq.isTop, pattern, density, paths)
                     infill == renumber(passes, perimeters.counter)
                     r == emitLayers(layers, i + 1, sequences, nozzle, pattern, density,
                                     infill.counter, withSequences)
                 IN [lines |-> head \o perimeters.lines \o infillComment(seq, density)
                               \o infill.lines \o tail \o r.lines,
                     counter |-> r.counter]

\* sequences[i] is read for every layer that has a path (lines 501 and 603), and
\* layers[layers.length - 1].z for the footer (lines 556 and 695): a TypeError
\* when the entry is missing
throwsTypeError(layers, sequences) ==
    \/ Len(layers) = 0
    \/ \E i \in 1..Len(layers) :
          Len(segmentsToPerimeter(layers[i].segments)) > 0 /\ i > Len(sequences)

\* line 488 and line 585: let extrusionCounter = 0
initialExtrusionCounter == 0

\* mutant: the counter goes on from the last E of the program generated before
emitProgramCarrying(layers, lh, n, nozzle, pattern, density, sequences, withSequences) ==
    IF throwsTypeError(layers, sequences) THEN [threw |-> TRUE, lines |-> <<>>]
    ELSE LET carried ==
                 IF op \in {"generateGCode", "generateGCodeWithSequences"}
                 THEN LET e == SelectSeq(result.lines, HasE)
                      IN IF Len(e) = 0 THEN 0 ELSE e[Len(e)].E
                 ELSE 0
         IN [threw |-> FALSE,
             lines |-> header(lh, n, pattern, density, withSequences)
                       \o emitLayers(layers, 0, sequences, nozzle, pattern, density,
                                     carried, withSequences).lines
                       \o footer(layers[Len(layers)].z, withSequences)]

emitProgram(layers, lh, n, nozzle, pattern, density, sequences, withSequences) ==
    IF throwsTypeError(layers, sequences) THEN [threw |-> TRUE, lines |-> <<>>]
    ELSE [threw |-> FALSE,
          lines |-> header(lh, n, pattern, density, withSequences)
                    \o emitLayers(layers, 0, sequences, nozzle, pattern, density,
                                  initialExtrusionCounter, withSequences).lines
                    \o footer(layers[Len(layers)].z, withSequences)]

generateGCodeWithSequences(layers, lh, n, nozzle, pattern, density, sequences) ==
    emitProgram(layers, lh, n, nozzle, pattern, density, sequences, TRUE)

generateGCode(m, layers, lh, n, nozzle, pattern, density) ==
    emitProgram(layers, lh, n, nozzle, pattern, density,
                analyzeLayerSequences(m, lh, n, layers), FALSE)

(***************************************************************************)
(* sliceSTL (main.js): every model is sliced and classified on its own,    *)
(* the union of the meshes is sliced, and the per-model flags are merged   *)
(* onto the combined layers by height.  A model is its world-space mesh in *)
(* slicer coordinates (lines 710-740 read it from the viewport).           *)
(***************************************************************************)
belowPlateLimit == -4     \* -0.1 mm
floatingLimit == 4        \* 0.1 mm
zMatchNum == 1            \* 0.001 mm = 1/25 unit
zMatchDen == 25

\* lines 701-760
RECURSIVE sliceModels(_, _, _)
sliceModels(models, lh, n) ==
    IF models = <<>> THEN <<>>
    ELSE LET model == Head(models)
             rest == sliceModels(Tail(models), lh, n)
         IN IF ~model.hasPreviewMesh THEN rest
            ELSE LET modelLayers == sliceMesh(model.mesh, lh)
                 IN <<[mesh |-> model.mesh,
                       layers |-> modelLayers,
                       sequences |-> analyzeLayerSequences(model.mesh, lh, n, modelLayers)]>>
                    \o rest

\* line 830
sameHeight(za, zb) == Abs(za - zb) * zMatchDen < zMatchNum

\* lines 829-841: the first combined layer at the height of the model's layer; 0 if none
matchingLayer(layers, layerZ) ==
    LET hits == {j \in 1..Len(layers) : sameHeight(layers[j].z, layerZ)}
    IN IF hits = {} THEN 0 ELSE SetMin(hits)

\* mutant: the flags of the first model only reach the combined layers
mergeSequencesFirstModel(layers, modelSlices) ==
    [j \in 1..Len(layers) |->
        [isBottom |-> \E i \in 1..Len(modelSlices[1].sequences) :
                         /\ matchingLayer(layers, modelSlices[1].layers[i].z) = j
                         /\ modelSlices[1].sequences[i].isBottom,
         isTop |-> \E i \in 1..Len(modelSlices[1].sequences) :
                         /\ matchingLayer(layers, modelSlices[1].layers[i].z) = j
                         /\ modelSlices[1].sequences[i].isTop]]

\* lines 816-843
mergeSequences(layers, modelSlices) ==
    [j \in 1..Len(layers) |->
        [isBottom |-> \E s \in 1..Len(modelSlices) : \E i \in 1..Len(modelSlices[s].sequences) :
                         /\ matchingLayer(layers, modelSlices[s].layers[i].z) = j
                         /\ modelSlices[s].sequences[i].isBottom,
         isTop |-> \E s \in 1..Len(modelSlices) : \E i \in 1..Len(modelSlices[s].sequences) :
                         /\ matchingLayer(layers, modelSlices[s].layers[i].z) = j
                         /\ modelSlices[s].sequences[i].isTop]]

noProgram(outcome) ==
    [outcome |-> outcome, layers |-> <<>>, mergedSequences |-> <<>>, gcode |-> <<>>]

\* lines 668-883; proceed is the user's answer to the floating-model question
sliceSTL(models, lh, n, nozzle, pattern, density, proceed) ==
    IF Len(models) = 0 THEN noProgram("noModels")
    ELSE IF \E k \in 1..Len(models) : models[k].hasPreviewMesh /\ Len(models[k].mesh) = 0
    THEN noProgram("failed")      \* sliceMesh reads bbox.size of null
    ELSE LET modelSlices == sliceModels(models, lh, n)
             combinedMesh == Concat([s \in 1..Len(modelSlices) |-> modelSlices[s].mesh])
         IN IF combinedMesh = <<>>
            THEN IF proceed THEN noProgram("failed") ELSE noProgram("cancelled")
            ELSE LET minZ == getBoundingBox(combinedMesh).min.z
                     layers == sliceMesh(combinedMesh, lh)
                     mergedSequences == mergeSequences(layers, modelSlices)
                 IN IF minZ < belowPlateLimit THEN noProgram("belowPlate")
                    ELSE IF minZ > floatingLimit /\ ~proceed THEN noProgram("cancelled")
                    ELSE IF Len(layers) = 0 THEN noProgram("failed")
                    ELSE [outcome |-> "loaded",
                          layers |-> layers,
                          mergedSequences |-> mergedSequences,
                          gcode |-> generateGCodeWithSequences(layers, lh, n, nozzle, pattern,
                                        density, mergedSequences).lines]

\* GCodeParser.parse: blank lines, comments and unknown words give no command
parsedWords == {"G0", "G1", "G28", "M104", "M109", "M140", "M190"}
isCommand(line) == line.cmd \in parsedWords
parse(gcode) == SelectSeq(gcode, isCommand)

\* GCodeParser.js line 41: line.toLowerCase().includes('layer'), on the comment
\* texts of the model
containsLayer(text) ==
    text \in {"Layer", "Layer Height", "Top/Bottom Solid Layers", "Solid layer (bottom)",
              "Solid layer (top)", "layer change", "now layer"}

\* line 42: /layer[:\s]+(\d+)/i matches "; Layer 3 (Z=0.600)" and "; now layer 5",
\* not "; Layer Height: 0.2mm", "; Top/Bottom Solid Layers: 3",
\* "; Solid layer (top)" or "; layer change"
layerNumberPattern(text) == text \in {"Layer", "now layer"}

\* line 30: /;\s*layer[:\s]+\d+/i wants the word right after the semicolon
layerCommentPattern(text) == text = "Layer"

\* lines 27-34: the first pass
hasLayerComments(gcode) ==
    \E i \in 1..Len(gcode) : gcode[i].cmd = ";" /\ layerCommentPattern(gcode[i].text)

\* mutant: every comment with "layer" in it counts one layer up
incrementLayer(currentLayer, line) ==
    IF containsLayer(line.text) THEN currentLayer + 1 ELSE currentLayer

\* lines 41-46: currentLayer after a comment line
setLayer(currentLayer, line) ==
    IF containsLayer(line.text) /\ layerNumberPattern(line.text) THEN line.n
    ELSE currentLayer

\* mutant: a move with an E value is extruding
isExtrudingWheneverE(params, currentPosition) == "E" \in DOMAIN params

\* line 151: params.E !== undefined && params.E > this.currentPosition.e
isExtruding(params, currentPosition) ==
    "E" \in DOMAIN params /\ params.E > currentPosition.e

\* lines 133-148: a parameter of the line, or the value so far
paramOr(params, letter, old) == IF letter \in DOMAIN params THEN params[letter] ELSE old

\* lines 124-161; params is the line; the move's to is the new currentPosition
parseMove(params, lineNumber, currentPosition) ==
    [type |-> "move",
     line |-> lineNumber,
     from |-> currentPosition,
     to |-> [x |-> paramOr(params, "X", currentPosition.x),
             y |-> paramOr(params, "Y", currentPosition.y),
             z |-> paramOr(params, "Z", currentPosition.z),
             e |-> paramOr(params, "E", currentPosition.e)],
     extruding |-> isExtruding(params, currentPosition),
     params |-> params]

\* lines 83-119; "null" for a word the parser does not know
parseLine(line, lineNumber, currentPosition) ==
    IF line.cmd \in {"G0", "G1"} THEN parseMove(line, lineNumber, currentPosition)
    ELSE IF line.cmd = "G28" THEN [type |-> "home", line |-> lineNumber]
    ELSE IF line.cmd \in {"M104", "M109"}
         THEN [type |-> "temperature", line |-> lineNumber, temp |-> paramOr(line, "S", 0)]
    ELSE IF line.cmd \in {"M140", "M190"}
         THEN [type |-> "bed_temperature", line |-> lineNumber, temp |-> paramOr(line, "S", 0)]
    ELSE [type |-> "null"]

\* mutant: layer 0 is tracked like any other
tracksLayerZero(usesLayerComments, currentLayer, layers) ==
    \A k \in 1..Len(layers) : layers[k] # currentLayer

\* line 68
tracksLayer(usesLayerComments, currentLayer, layers) ==
    /\ \A k \in 1..Len(layers) : layers[k] # currentLayer
    /\ ~(usesLayerComments /\ currentLayer = 0)

\* lines 18-24: the parser at the start of parse
startOfParse(gcode) ==
    [commands |-> <<>>,
     layers |-> <<>>,
     currentPosition |-> [x |-> 0, y |-> 0, z |-> 0, e |-> 0],
     currentLayer |-> 0,
     lastZ |-> 0,
     hasLayerComments |-> hasLayerComments(gcode),
     index |-> 0]

\* lines 37-75: one pass of the forEach, on lines[p.index]
parseOneLine(p, line) ==
    LET next == [p EXCEPT !.index = p.index + 1]
    IN IF line.cmd = "" THEN next
       ELSE IF line.cmd = ";" THEN [next EXCEPT !.currentLayer = setLayer(p.currentLayer, line)]
       ELSE LET command == parseLine(line, p.index, p.currentPosition)
            IN IF command.type = "null" THEN next
               ELSE LET zChanged == /\ ~p.hasLayerComments
                                    /\ command.type = "move"
                                    /\ "Z" \in DOMAIN line
                                    /\ line.Z # p.lastZ
                        layer == IF zChanged THEN p.currentLayer + 1 ELSE p.currentLayer
                    IN [next EXCEPT
                          !.currentLayer = layer,
                          !.lastZ = IF zChanged THEN line.Z ELSE @,
                          !.currentPosition = IF command.type = "move" THEN command.to ELSE @,
                          !.commands = Append(@, [layer |-> layer] @@ command),
                          !.layers = IF tracksLayer(p.hasLayerComments, layer, @)
                                     THEN Append(@, layer) ELSE @]

\* lines 166-168
getLayerCount(p) == Len(p.layers)

\* PrinterSimulator.loadCommands: the simulator keeps the moves
isMove(line) == line.cmd \in {"G0", "G1"}
loadCommands(cmds) == SelectSeq(cmds, isMove)

\* mutant: the program text is replaced, the simulator's commands are not
loadGCodeTextOnly(gcode, before) ==
    [currentGCode |-> gcode, commands |-> before.commands, toast |-> before.toast]

\* main.js loadGCode; before holds currentGCode, commands and toast at the call
loadGCode(gcode, before) ==
    IF Len(parse(gcode)) = 0
    THEN [currentGCode |-> gcode,
          commands |-> before.commands,
          toast |-> [type |-> "error", message |-> "No valid G-code commands found!"]]
    ELSE [currentGCode |-> gcode,
          commands |-> loadCommands(parse(gcode)),
          toast |-> before.toast]

\* the message of the error sliceSTL's catch reports: the TypeError of reading
\* bbox.size of null, or the Error thrown at line 810
slicingError(models) ==
    IF \A k \in 1..Len(models) : models[k].hasPreviewMesh => Len(models[k].mesh) = 0
    THEN "Slicing failed: TypeError"
    ELSE "Slicing failed: Failed to slice mesh - no layers generated"

\* what a run of sliceSTL that returned r leaves in currentGCode, commands and
\* toast (lines 669-671, 676, 783-797, 852-856, 877-882)
afterSliceSTL(models, r, before) ==
    IF r.outcome = "noModels"
    THEN [before EXCEPT !.toast = [type |-> "error",
                                   message |-> "Please load at least one STL model first!"]]
    ELSE IF r.outcome = "belowPlate"
    THEN [before EXCEPT !.toast = [type |-> "error",
                                   message |-> "Model extends below build plate"]]
    ELSE IF r.outcome = "cancelled"
    THEN [before EXCEPT !.toast = [type |-> "loading", message |-> "Slicing models..."]]
    ELSE IF r.outcome = "failed"
    THEN [before EXCEPT !.toast = [type |-> "error", message |-> slicingError(models)]]
    ELSE [loadGCode(r.gcode, before) EXCEPT
             !.toast = [type |-> "success", message |-> "Slicing complete!"]]

(***************************************************************************)
(* parseSTL.  A file is its length in bytes, whether its first 80 bytes    *)
(* hold the word 'solid', and its content read both ways: as a binary      *)
(* file, the triangle count declared at byte 80 and the triangles whose    *)
(* 36 vertex bytes (offset + 12 .. offset + 47 of each 50-byte record) lie *)
(* inside the buffer; as text, its lines by their leading word.            *)
(***************************************************************************)
headerBytes == 80
countBytes == 4
recordBytes == 50
vertexBytes == 48       \* the last byte read of a record is offset + 47

threwError == [threw |-> TRUE, mesh |-> <<>>]
parsed(triangles) == [threw |-> FALSE, mesh |-> triangles]

\* lines 37-78: getUint32(80) and every getFloat32 throw a RangeError past the
\* end of the buffer; the two attribute bytes of a record are never read
parseBinarySTL(file) ==
    IF file.bytes < headerBytes + countBytes THEN threwError
    ELSE IF file.count > 0
            /\ headerBytes + countBytes + (file.count - 1) * recordBytes + vertexBytes
                 > file.bytes
    THEN threwError
    ELSE parsed(SubSeq(file.records, 1, file.count))

\* lines 90-113: one line of the text; st is currentTriangle (<<>> for null, else
\* the vertices assigned so far), vertexCount and the triangles pushed
RECURSIVE parseLines(_, _, _)
parseLines(lines, k, st) ==
    IF k > Len(lines) THEN parsed(st.triangles)
    ELSE LET line == lines[k]
         IN IF line.word = "facet"
            THEN parseLines(lines, k + 1,
                            [st EXCEPT !.open = TRUE, !.current = <<>>, !.vertexCount = 0])
            ELSE IF line.word = "vertex"
            THEN IF st.vertexCount <= 2
                 THEN IF ~st.open THEN threwError     \* currentTriangle is null
                      ELSE parseLines(lines, k + 1,
                               [st EXCEPT !.current = Append(st.current,
                                                             V3(line.x, line.y, line.z)),
                                          !.vertexCount = st.vertexCount + 1])
                 ELSE parseLines(lines, k + 1, [st EXCEPT !.vertexCount = st.vertexCount + 1])
            ELSE IF line.word = "endfacet"
            THEN IF st.open /\ Len(st.current) = 3
                 THEN parseLines(lines, k + 1,
                          [st EXCEPT !.triangles =
                               Append(st.triangles,
                                      Tri(st.current[1], st.current[2], st.current[3]))])
                 ELSE parseLines(lines, k + 1, st)
            ELSE parseLines(lines, k + 1, st)

\* lines 83-118
parseASCIISTL(file) ==
    parseLines(file.lines, 1,
               [open |-> FALSE, current |-> <<>>, vertexCount |-> 0, triangles |-> <<>>])

\* lines 21-32: new Uint8Array(buffer, 0, 80) throws a RangeError on a buffer of
\* fewer than 80 bytes
parseSTL(file) ==
    IF file.bytes < headerBytes THEN threwError
    ELSE IF file.solid THEN parseASCIISTL(file)
    ELSE parseBinarySTL(file)

\* mutant: the model is pushed before the bounding box is read
handleSTLUploadPushFirst(file, models, before) ==
    LET r == parseSTL(file)
    IN IF r.threw
       THEN [loadedModels |-> models,
             toast |-> [type |-> "error", message |-> "Error loading STL"]]
       ELSE IF getBoundingBox(r.mesh).null
       THEN [loadedModels |-> Append(models, [mesh |-> r.mesh, hasPreviewMesh |-> TRUE]),
             toast |-> [type |-> "error", message |-> "Error loading STL"]]
       ELSE [loadedModels |-> Append(models, [mesh |-> r.mesh, hasPreviewMesh |-> TRUE]),
             toast |-> before]

\* main.js lines 460-527: what an upload leaves in loadedModels and in the toast;
\* reading bbox.size of null (no triangle) throws before the model is pushed
handleSTLUpload(file, models, before) ==
    LET r == parseSTL(file)
    IN IF r.threw \/ getBoundingBox(r.mesh).null
       THEN [loadedModels |-> models,
             toast |-> [type |-> "error", message |-> "Error loading STL"]]
       ELSE [loadedModels |-> Append(models, [mesh |-> r.mesh, hasPreviewMesh |-> TRUE]),
             toast |-> before]

(***************************************************************************)
(* The slicer object as its callers set it up: `new STLSlicer()` and the   *)
(* fields assigned before a call.                                          *)
(***************************************************************************)
defaultLayerHeight == 8        \* 0.2 mm
defaultTopBottomLayers == 3
defaultNozzleDiameter == 16    \* 0.4 mm

Returns(name, a, r) ==
    /\ op' = name
    /\ args' = a
    /\ result' = r

(***************************************************************************)
(* SpecSlice: sliceAtZ and sliceMesh on small meshes                       *)
(***************************************************************************)
MaxZ == 2               \* vertex heights are 0..MaxZ
MaxLayerHeight == 2     \* layer heights are 1..MaxLayerHeight

\* a triangle over a fixed footprint; 6 is divisible by every height difference
TriZ(z1, z2, z3) == Tri(V3(0, 0, z1), V3(6, 0, z2), V3(0, 6, z3))
SliceTriangles == {TriZ(z1, z2, z3) : z1 \in 0..MaxZ, z2 \in 0..MaxZ, z3 \in 0..MaxZ}
SliceMeshes == {<<t>> : t \in SliceTriangles}
                 \cup {<<t1, t2>> : t1 \in SliceTriangles, t2 \in SliceTriangles}

InitSlice ==
    /\ loadedModels = <<>>
    /\ nothingLoaded
    /\ mesh \in SliceMeshes
    /\ layerHeight \in 1..MaxLayerHeight
    /\ topBottomLayers = defaultTopBottomLayers
    /\ nozzleDiameter = defaultNozzleDiameter
    /\ op = "idle"
    /\ args = <<>>
    /\ result = <<>>

CallSliceAtZ ==
    /\ \E z \in (-1)..(MaxZ + 1) : Returns("sliceAtZ", [z |-> z], sliceAtZ(mesh, z))
    /\ UNCHANGED <<loadedModels, slicerVars, uiVars>>

CallSliceMesh ==
    /\ Returns("sliceMesh", <<>>, sliceMesh(mesh, layerHeight))
    /\ UNCHANGED <<loadedModels, slicerVars, uiVars>>

NextSlice == CallSliceAtZ \/ CallSliceMesh

SpecSlice == InitSlice /\ [][NextSlice]_vars

\* The claims' vocabulary ---------------------------------------------------
\* an edge crosses the plane: its endpoint heights lie on opposite sides of z,
\* equality included
EdgeCrosses(va, vb, z) == (va.z <= z /\ z <= vb.z) \/ (vb.z <= z /\ z <= va.z)
EdgesOf(tri) == {<<tri.v1, tri.v2>>, <<tri.v2, tri.v3>>, <<tri.v3, tri.v1>>}
CrossingEdges(tri, z) == {e \in EdgesOf(tri) : EdgeCrosses(e[1], e[2], z)}
\* an edge that crosses and whose endpoint heights differ by more than 0.0001 mm
CountedEdges(tri, z) ==
    {e \in CrossingEdges(tri, z) : Abs(e[1].z - e[2].z) * 250 > 1}
\* p is the point of the edge e at height z
OnEdgeAt(p, e, z) ==
    /\ (p.x - e[1].x) * (e[2].z - e[1].z) = (z - e[1].z) * (e[2].x - e[1].x)
    /\ (p.y - e[1].y) * (e[2].z - e[1].z) = (z - e[1].z) * (e[2].y - e[1].y)

\* the numbers of a set in increasing order
RECURSIVE Ascending(_)
Ascending(S) == IF S = {} THEN <<>> ELSE <<SetMin(S)>> \o Ascending(S \ {SetMin(S)})

\* C3 as stated: sliceAtZ emits a segment for a triangle if and only if exactly
\* two of its three edges cross the plane (0, 1 or 3 crossing edges: nothing).
C3_SegmentIffTwoCrossingEdges ==
    op = "sliceAtZ" =>
        Len(result)
          = Cardinality({i \in 1..Len(mesh) : Cardinality(CrossingEdges(mesh[i], args.z)) = 2})

\* C3 amended: sliceAtZ emits a segment for a triangle if and only if exactly two
\* of its edges cross the plane AND have endpoint heights more than 0.0001 mm
\* apart (an edge lying in the plane crosses it but gives no point); the segment
\* joins the points of those two edges at height z, and there is at most one
\* segment per triangle, in mesh order.
C3_SegmentIffTwoCountedEdges ==
    op = "sliceAtZ" =>
        LET hit == Ascending({i \in 1..Len(mesh) :
                                 Cardinality(CountedEdges(mesh[i], args.z)) = 2})
        IN /\ Len(result) = Len(hit)
           /\ \A k \in 1..Len(hit) :
                 \E e1 \in CountedEdges(mesh[hit[k]], args.z) :
                 \E e2 \in CountedEdges(mesh[hit[k]], args.z) :
                    /\ e1 # e2
                    /\ OnEdgeAt(result[k].start, e1, args.z)
                    /\ OnEdgeAt(result[k].end, e2, args.z)

\* a triangle with one edge in the plane and the third vertex off it was sliced
\* and gave a segment
C3_Witness ==
    /\ op = "sliceAtZ"
    /\ Len(mesh) = 1
    /\ Cardinality(CrossingEdges(mesh[1], args.z)) = 3
    /\ Cardinality(CountedEdges(mesh[1], args.z)) = 2
    /\ Len(result) = 1

PlaneCount == Ceil(getBoundingBox(mesh).size.z, layerHeight)
PlaneZ(k) == getBoundingBox(mesh).min.z + (k + 1) * layerHeight

\* C2 as stated: sliceMesh returns exactly ceil(size.z / layerHeight) layers, the
\* smallest height is >= min.z + layerHeight and the largest is <= max.z.
C2_ExactlyCeilLayers ==
    op = "sliceMesh" =>
        /\ Len(result) = PlaneCount
        /\ \A i \in 1..Len(result) :
              /\ result[i].z >= getBoundingBox(mesh).min.z + layerHeight
              /\ result[i].z <= getBoundingBox(mesh).max.z

\* C2 amended: sliceMesh returns at most ceil(size.z / layerHeight) layers: one
\* for each plane min.z + (k + 1) * layerHeight, k < ceil(..), at which some
\* triangle yields a segment, and none for a plane that yields no segment; every
\* returned height is >= min.z + layerHeight and <= max.z.
C2_OnlyPlanesWithSegments ==
    op = "sliceMesh" =>
        /\ Len(result) <= PlaneCount
        /\ {result[i].layerNum : i \in 1..Len(result)}
             = {k \in 0..(PlaneCount - 1) :
                   \E t \in 1..Len(mesh) : Cardinality(CountedEdges(mesh[t], PlaneZ(k))) = 2}
        /\ \A i \in 1..Len(result) :
              /\ Len(result[i].segments) > 0
              /\ result[i].z = PlaneZ(result[i].layerNum)
              /\ result[i].z >= getBoundingBox(mesh).min.z + layerHeight
              /\ result[i].z <= getBoundingBox(mesh).max.z
        /\ \A i \in 1..(Len(result) - 1) : result[i].layerNum < result[i + 1].layerNum

\* a mesh was sliced into at least one layer, and some plane of it gave no layer
C2_Witness ==
    /\ op = "sliceMesh"
    /\ Len(result) >= 1
    /\ Len(result) < PlaneCount

\* C19 as stated: in the list sliceMesh returns, the k-th layer (from 0) has
\* layerNum = k and height min.z + (k + 1) * layerHeight, so consecutive layers
\* differ by one index and one layer height, also when some plane meets no
\* triangle.
C19_LayerNumIsPosition ==
    op = "sliceMesh" =>
        \A i \in 1..Len(result) :
            /\ result[i].layerNum = i - 1
            /\ result[i].z = PlaneZ(i - 1)

\* C19 amended: in the list sliceMesh returns, layerNum is the number of the
\* layer's plane, not its place in the list: the k-th layer (from 0) has
\* layerNum >= k and height min.z + (layerNum + 1) * layerHeight; layerNum
\* increases strictly along the list, by more than one where planes that met no
\* triangle were left out, and the heights differ by as many layer heights; the
\* numbers are contiguous from 0 exactly when no plane before the last returned
\* one was left out.
C19_LayerNumIsPlaneNumber ==
    op = "sliceMesh" =>
        /\ \A i \in 1..Len(result) :
              /\ result[i].layerNum >= i - 1
              /\ result[i].layerNum < PlaneCount
              /\ result[i].z = PlaneZ(result[i].layerNum)
        /\ \A i \in 1..(Len(result) - 1) :
              /\ result[i].layerNum < result[i + 1].layerNum
              /\ result[i + 1].z - result[i].z
                   = (result[i + 1].layerNum - result[i].layerNum) * layerHeight
        /\ Len(result) > 0 =>
              ((\A i \in 1..Len(result) : result[i].layerNum = i - 1)
                 <=> \A k \in 0..result[Len(result)].layerNum :
                        Len(sliceAtZ(mesh, PlaneZ(k))) > 0)

\* the first plane met no triangle and the second did: the first returned layer
\* is numbered 1
C19_Witness ==
    /\ op = "sliceMesh"
    /\ Len(result) >= 1
    /\ result[1].layerNum = 1
    /\ result[1].z = PlaneZ(1)
    /\ Len(sliceAtZ(mesh, PlaneZ(0))) = 0

(***************************************************************************)
(* Test solids                                                             *)
(***************************************************************************)
\* the two triangles of the quad a, b, c, d (counter-clockwise seen from outside)
Quad(a, b, c, d) == <<Tri(a, b, c), Tri(a, c, d)>>

\* the 12 outward-facing triangles of an axis-aligned box
Box(x0, y0, z0, sx, sy, sz) ==
    LET x1 == x0 + sx
        y1 == y0 + sy
        z1 == z0 + sz
    IN Quad(V3(x0, y0, z0), V3(x0, y1, z0), V3(x1, y1, z0), V3(x1, y0, z0))     \* bottom
       \o Quad(V3(x0, y0, z1), V3(x1, y0, z1), V3(x1, y1, z1), V3(x0, y1, z1))  \* top
       \o Quad(V3(x0, y0, z0), V3(x1, y0, z0), V3(x1, y0, z1), V3(x0, y0, z1))  \* front
       \o Quad(V3(x1, y0, z0), V3(x1, y1, z0), V3(x1, y1, z1), V3(x1, y0, z1))  \* right
       \o Quad(V3(x1, y1, z0), V3(x0, y1, z0), V3(x0, y1, z1), V3(x1, y1, z1))  \* back
       \o Quad(V3(x0, y1, z0), V3(x0, y0, z0), V3(x0, y0, z1), V3(x0, y1, z1))  \* left

\* the 20 x 20 x 20 mm cube standing on the plate
Cube20 == Box(0, 0, 0, Mm(20), Mm(20), Mm(20))

(***************************************************************************)
(* SpecTrace: segmentsToPerimeter on short segment lists over a few grid   *)
(* points, and on every ordering of the cube's cross-section at Z = 10 mm  *)
(***************************************************************************)
MaxSegments == 3        \* the short lists hold up to MaxSegments segments

TracePoints == {P2(0, 0), P2(2, 0), P2(2, 2)}
TraceSegments == {Seg(a, b) : a \in TracePoints, b \in TracePoints}
RECURSIVE SeqsUpTo(_, _)
SeqsUpTo(S, n) ==
    IF n = 0 THEN {<<>>}
    ELSE LET shorter == SeqsUpTo(S, n - 1)
         IN shorter \cup {Append(q, x) : q \in {r \in shorter : Len(r) = n - 1}, x \in S}

CubeSegments == sliceAtZ(Cube20, Mm(10))
CubeOrderings ==
    {[i \in 1..Len(CubeSegments) |-> CubeSegments[p[i]]] :
        p \in Permutations(1..Len(CubeSegments))}

TraceInputs == SeqsUpTo(TraceSegments, MaxSegments) \cup CubeOrderings

InitTrace ==
    /\ loadedModels = <<>>
    /\ nothingLoaded
    /\ mesh = <<>>
    /\ layerHeight = defaultLayerHeight
    /\ topBottomLayers = defaultTopBottomLayers
    /\ nozzleDiameter = defaultNozzleDiameter
    /\ op = "idle"
    /\ args \in {[segments |-> segments] : segments \in TraceInputs}
    /\ result = <<>>

CallSegmentsToPerimeter ==
    /\ op = "idle"
    /\ Returns("segmentsToPerimeter", args, segmentsToPerimeter(args.segments))
    /\ UNCHANGED <<loadedModels, slicerVars, uiVars>>

NextTrace == CallSegmentsToPerimeter

SpecTrace == InitTrace /\ [][NextTrace]_vars

\* C4: every Path returned by segmentsToPerimeter is a closed loop: its last
\* point lies within the stitching tolerance of its first point; an open chain
\* is never returned.
C4_EveryPathClosed ==
    op = "segmentsToPerimeter" =>
        \A k \in 1..Len(result) : withinTolerance(result[k][Len(result[k])], result[k][1])

IsCubeOrdering(segments) ==
    Len(segments) = Len(CubeSegments) /\ Range(segments) = Range(CubeSegments)

SquareCorners == {P2(0, 0), P2(Mm(20), 0), P2(Mm(20), Mm(20)), P2(0, Mm(20))}
SquareMidpoints == {P2(Mm(10), 0), P2(Mm(20), Mm(10)), P2(Mm(10), Mm(20)), P2(0, Mm(10))}

\* C5 as stated: for every ordering of the cube's cross-section segments at
\* Z = 10, segmentsToPerimeter returns exactly one Path, of exactly 4 points,
\* the corners of the 20 x 20 square.
C5_OnePathOfFourCorners ==
    (op = "segmentsToPerimeter" /\ IsCubeOrdering(args.segments)) =>
        /\ Len(result) = 1
        /\ Len(result[1]) = 4
        /\ Range(result[1]) = SquareCorners

\* C5 amended: for every ordering of the cube's cross-section segments at Z = 10
\* (8 segments, two per side face), segmentsToPerimeter returns exactly one Path;
\* it has 9 points: the 4 corners and the 4 side midpoints of the 20 x 20 square,
\* each next to the one before along the boundary, and the first point again at
\* the end.
C5_OnePathOfNinePoints ==
    (op = "segmentsToPerimeter" /\ IsCubeOrdering(args.segments)) =>
        /\ Len(result) = 1
        /\ Len(result[1]) = 9
        /\ result[1][9] = result[1][1]
        /\ {result[1][i] : i \in 1..8} = SquareCorners \cup SquareMidpoints
        /\ \A i \in 1..8 :
              Abs(result[1][i + 1].x - result[1][i].x)
                + Abs(result[1][i + 1].y - result[1][i].y) = Mm(10)

\* the cross-section was traced from an ordering other than the slicer's own
C5_Witness ==
    /\ op = "segmentsToPerimeter"
    /\ IsCubeOrdering(args.segments)
    /\ args.segments # CubeSegments
    /\ args.segments[1] # CubeSegments[1]
    /\ Len(result) = 1

\* segment i of the input has no neighbour: no end of another segment lies
\* within the tolerance of one of its ends
Isolated(i) ==
    \A j \in 1..Len(args.segments) :
        j # i => \A a \in {args.segments[i].start, args.segments[i].end} :
                    \A b \in {args.segments[j].start, args.segments[j].end} :
                        ~withinTolerance(a, b)
\* the number of segments the returned paths are made of
RECURSIVE SegmentsUsed(_)
SegmentsUsed(paths) ==
    IF paths = <<>> THEN 0 ELSE Len(Head(paths)) - 1 + SegmentsUsed(Tail(paths))

\* C20: every Path returned by segmentsToPerimeter has at least 3 points; a chain
\* that stops with fewer than 3 points (a single segment with no connecting
\* neighbour) is discarded: it is not among the returned paths.
C20_PathsHaveThreePoints ==
    op = "segmentsToPerimeter" =>
        /\ \A k \in 1..Len(result) : Len(result[k]) >= 3
        /\ SegmentsUsed(result) <= Len(args.segments)
        /\ \A i \in 1..Len(args.segments) :
              Isolated(i) =>
                 \A k \in 1..Len(result) : \A p \in 1..Len(result[k]) :
                    /\ ~withinTolerance(result[k][p], args.segments[i].start)
                    /\ ~withinTolerance(result[k][p], args.segments[i].end)

\* three segments were traced: two chained into a path of three points, and the
\* third, a chain of two points, was discarded
C20_Witness ==
    /\ op = "segmentsToPerimeter"
    /\ Len(args.segments) = 3
    /\ Len(result) = 1
    /\ Len(result[1]) = 3
    /\ SegmentsUsed(result) = 2

(***************************************************************************)
(* SpecInfill: generateLayerInfill on sets of loops, with the bounding box *)
(* of the loops as its callers pass it                                     *)
(***************************************************************************)
MaxCells == 2           \* loop sides are 1..MaxCells cells

\* a cell is two scan lines of solid fill at the default nozzle (0.7 mm)
Cell == 2 * infillSpacing(defaultNozzleDiameter, 100)
Square(x0, y0, a) == <<P2(x0, y0), P2(x0 + a, y0), P2(x0 + a, y0 + a), P2(x0, y0 + a)>>
Diamond(x0, y0, r) == <<P2(x0 + r, y0), P2(x0 + 2 * r, y0 + r), P2(x0 + r, y0 + 2 * r), P2(x0, y0 + r)>>

\* the claim's loops: outer 20 x 20 mm, inner 10 x 10 mm, same centre
ConcentricSquares == <<Square(0, 0, Mm(20)), Square(Mm(5), Mm(5), Mm(10))>>

\* on the first scan lines of the outer square, and off them
InfillOffsets == {0, inset, inset + Cell \div 2, inset + Cell}
InfillLoops ==
    {Square(o, o, k * Cell) : o \in InfillOffsets, k \in 1..MaxCells}
      \cup {Diamond(o, o, k * Cell) : o \in {0, 8}, k \in 1..MaxCells}
InfillPathSets ==
    {<<Square(0, 0, 3 * Cell)>>, <<Diamond(0, 0, 2 * Cell)>>, ConcentricSquares}
      \cup {<<Square(0, 0, 3 * Cell), inner>> : inner \in InfillLoops}
      \cup {<<Square(0, 0, 3 * Cell), inner, inner>> : inner \in InfillLoops}

InfillDensities == {0, 20, 50, 100}

InitInfill ==
    /\ loadedModels = <<>>
    /\ nothingLoaded
    /\ mesh = <<>>
    /\ layerHeight = defaultLayerHeight
    /\ topBottomLayers = defaultTopBottomLayers
    /\ nozzleDiameter \in {defaultNozzleDiameter, 2 * defaultNozzleDiameter}
    /\ op = "idle"
    /\ args \in {[bbox |-> getLayerBoundingBox(Concat(paths)), pattern |-> pattern,
                  density |-> density, paths |-> paths, angle |-> angle] :
                    paths \in InfillPathSets, pattern \in {"lines", "grid"},
                    density \in InfillDensities, angle \in {0, 90}}
    /\ result = <<>>

CallGenerateLayerInfill ==
    /\ op = "idle"
    /\ Returns("generateLayerInfill", args,
               generateLayerInfill(args.bbox, nozzleDiameter, args.pattern, args.density,
                                   args.paths, args.angle))
    /\ UNCHANGED <<loadedModels, slicerVars, uiVars>>

NextInfill == CallGenerateLayerInfill

SpecInfill == InitInfill /\ [][NextInfill]_vars

\* The claims' vocabulary ---------------------------------------------------
\* the fill segments of a list of lines: each G1 line with the G0 line before it
FillSegments(lines) ==
    {k \in 2..Len(lines) : lines[k].cmd = "G1" /\ lines[k - 1].cmd = "G0"}
\* the midpoint of fill segment k, read back from the text (0.001 mm) into units
FillMidpoint(lines, k) ==
    P2((lines[k - 1].X + lines[k].X) \div 50, (lines[k - 1].Y + lines[k].Y) \div 50)
\* the number of loops that contain the point
LoopsAround(point, paths) ==
    Cardinality({k \in 1..Len(paths) : isPointInPolygon(point, paths[k])})

\* C6: for any set of Paths and both scan directions, every fill segment emitted
\* by generateLayerInfill has its midpoint inside an odd number of the Paths (a
\* pair whose midpoint is inside an even number is never emitted).
C6_FillMidpointInOddNumberOfPaths ==
    op = "generateLayerInfill" =>
        /\ \A k \in 1..Len(result) : result[k].cmd = "G1" => k \in FillSegments(result)
        /\ \A k \in FillSegments(result) :
              LoopsAround(FillMidpoint(result, k), args.paths) % 2 = 1

\* a scan line had a long enough pair of crossings around a point inside an even
\* number of loops, and the call emitted fill elsewhere
C6_Witness ==
    /\ op = "generateLayerInfill"
    /\ Len(result) > 0
    /\ args.angle = 0
    /\ \E i \in 0..10 :
          LET y == args.bbox.minY + inset + i * infillSpacing(nozzleDiameter, args.density)
              xs == scanCrossings(y, args.paths, TRUE)
          IN /\ y <= args.bbox.maxY - inset
             /\ \E j \in 1..(Len(xs) - 1) :
                   /\ j % 2 = 1
                   /\ xs[j + 1] - xs[j] > minFillLength
                   /\ LoopsAround(P2((xs[j] + xs[j + 1]) \div 2, y), args.paths) % 2 = 0

IsConcentricCase ==
    /\ op = "generateLayerInfill"
    /\ args.paths = ConcentricSquares
    /\ args.density = 100
    /\ args.angle = 0
    /\ nozzleDiameter = defaultNozzleDiameter

\* C7: for the concentric squares (outer 20 x 20, inner 10 x 10), the horizontal
\* scan line through the centre yields exactly two fill segments, one in the
\* left band and one in the right band, and no fill segment on any scan line
\* reaches into the interior of the inner square.
C7_TwoBandsAroundTheHole ==
    IsConcentricCase =>
        LET centreY == toFixed3(Mm(10))
            row == SelectSeq(result, LAMBDA line : line.Y = centreY)
        IN /\ row = << G0(toFixed3(0), centreY),
                       G1EF(toFixed3(Mm(5)), centreY, 0, fillFeedrate),
                       G0(toFixed3(Mm(15)), centreY),
                       G1EF(toFixed3(Mm(20)), centreY, 0, fillFeedrate) >>
           /\ \A k \in FillSegments(result) :
                 ~ /\ result[k].Y > toFixed3(Mm(5))
                   /\ result[k].Y < toFixed3(Mm(15))
                   /\ Max(result[k - 1].X, result[k].X) > toFixed3(Mm(5))
                   /\ Min(result[k - 1].X, result[k].X) < toFixed3(Mm(15))

\* the concentric squares were filled and a scan line ran through the centre
C7_Witness ==
    /\ IsConcentricCase
    /\ \E k \in 1..Len(result) : result[k].Y = toFixed3(Mm(10))

(***************************************************************************)
(* SpecClassify: analyzeLayerSequences and detectHorizontalSurfaces on     *)
(* short layer lists and on the sliced 20 mm cube                          *)
(***************************************************************************)
MaxLayers == 4          \* the short layer lists hold up to MaxLayers layers
MaxShell == 4           \* topBottomLayers is 0..MaxShell

\* the four sides of a square as segments, in order
SquareSegments(a) ==
    <<Seg(P2(0, 0), P2(a, 0)), Seg(P2(a, 0), P2(a, a)),
      Seg(P2(a, a), P2(0, a)), Seg(P2(0, a), P2(0, 0))>>

LayerGeometries == {<<>>, SquareSegments(Mm(1)), SquareSegments(Mm(2))}

\* layer lists as sliceMesh numbers them: plane k at height (k + 1) * lh
ShortLayerLists(lh) ==
    UNION {{[k \in 1..len |-> [layerNum |-> k - 1, z |-> k * lh, segments |-> g[k]]] :
               g \in [1..len -> LayerGeometries]} : len \in 0..MaxLayers}

ClassifyMeshes == {<<>>, Box(0, 0, 0, Mm(2), Mm(2), 2 * defaultLayerHeight)}

CubeLayers == sliceMesh(Cube20, defaultLayerHeight)

\* a 2 x 2 mm slab two layers high with a 1 x 1 mm tower four layers high on it:
\* the slab's top face is an upward surface with layers above it
StepSolid ==
    Box(0, 0, 0, Mm(2), Mm(2), 2 * defaultLayerHeight)
      \o Box(0, 0, 2 * defaultLayerHeight, Mm(1), Mm(1), 4 * defaultLayerHeight)
StepLayers == sliceMesh(StepSolid, defaultLayerHeight)

InitClassify ==
    /\ loadedModels = <<>>
    /\ nothingLoaded
    /\ layerHeight = defaultLayerHeight
    /\ topBottomLayers \in 0..MaxShell
    /\ nozzleDiameter = defaultNozzleDiameter
    /\ op = "idle"
    /\ \/ mesh \in ClassifyMeshes
          /\ args \in {[layers |-> layers] : layers \in ShortLayerLists(layerHeight)}
       \/ mesh = Cube20
          /\ args = [layers |-> CubeLayers]
       \/ mesh = StepSolid
          /\ args = [layers |-> StepLayers]
    /\ result = <<>>

CallAnalyzeLayerSequences ==
    /\ op = "idle"
    /\ Returns("analyzeLayerSequences", args,
               analyzeLayerSequences(mesh, layerHeight, topBottomLayers, args.layers))
    /\ UNCHANGED <<loadedModels, slicerVars, uiVars>>

CallDetectHorizontalSurfaces ==
    /\ op = "idle"
    /\ Returns("detectHorizontalSurfaces", args, detectHorizontalSurfaces(mesh, layerHeight))
    /\ UNCHANGED <<loadedModels, slicerVars, uiVars>>

NextClassify == CallAnalyzeLayerSequences \/ CallDetectHorizontalSurfaces

SpecClassify == InitClassify /\ [][NextClassify]_vars

\* C9: the classification has one entry per layer, in order; its first
\* min(N, length) entries are isBottom and its last min(N, length) entries are
\* isTop, whatever the other rules decide.
C9_PositionalRuleAlwaysApplies ==
    op = "analyzeLayerSequences" =>
        LET len == Len(args.layers)
            band == Min(topBottomLayers, len)
        IN /\ Len(result) = len
           /\ \A k \in 1..len : k <= band => result[k].isBottom
           /\ \A k \in 1..len : k > len - band => result[k].isTop

\* a list of MaxLayers layers was classified with N = 1: the first layer is
\* bottom only and the last is top only
C9_Witness ==
    /\ op = "analyzeLayerSequences"
    /\ topBottomLayers = 1
    /\ Len(args.layers) = MaxLayers
    /\ result[1].isBottom /\ ~result[1].isTop
    /\ result[MaxLayers].isTop /\ ~result[MaxLayers].isBottom

IsCubeCase ==
    /\ op = "analyzeLayerSequences"
    /\ mesh = Cube20
    /\ topBottomLayers = 3
    /\ layerHeight = defaultLayerHeight

\* C8 as stated: for the 20 mm cube at layer height 0.2 with N = 3, exactly the
\* layer indices 0, 1, 2 are isBottom and exactly the last 3 indices are isTop.
C8_FirstThreeLastThreeOnly ==
    IsCubeCase =>
        /\ Len(result) = 100
        /\ \A k \in 1..Len(result) :
              /\ result[k].isBottom <=> k <= 3
              /\ result[k].isTop <=> k > Len(result) - 3

\* C8 amended: for the 20 mm cube at layer height 0.2 with N = 3, exactly the
\* layer indices 0, 1, 2 are isBottom; the last 3 indices are isTop and so is
\* every layer whose distance to the top face is below the surface tolerance
\* N * layerHeight + layerHeight (0.8 mm), which holds of index 96 (Z = 19.4);
\* no layer below index 95 is isTop.
C8_TopFaceToleranceAlsoMarks ==
    IsCubeCase =>
        /\ Len(result) = 100
        /\ \A k \in 1..Len(result) :
              /\ result[k].isBottom <=> k <= 3
              /\ result[k].isTop <=>
                    \/ k > Len(result) - 3
                    \/ Mm(20) - args.layers[k].z
                         < topBottomLayers * layerHeight + layerHeight
        /\ result[97].isTop
        /\ \A k \in 1..95 : ~result[k].isTop

\* the cube has been classified: 100 layers, the last at the top face
C8_Witness ==
    /\ IsCubeCase
    /\ Len(args.layers) = 100
    /\ args.layers[100].z = Mm(20)
    /\ result[100].isTop

\* the total segment length of layer i (from 0) of the classified list
TotalLength(i) == pathLength(args.layers[i + 1].segments)
\* within the next N + 1 layers some layer's total length is more than 10 %
\* below layer i's (which covers a drop to zero from a nonzero length)
DropsAfter(i) ==
    \E j \in 1..(topBottomLayers + 1) :
        /\ i + j <= Len(args.layers) - 1
        /\ TotalLength(i) > 0
        /\ (TotalLength(i) - TotalLength(i + j)) * 100 > 10 * TotalLength(i)
\* layer i and the N - 1 layers before it, clamped at 0, are all isTop
BandBelowIsTop(i) ==
    \A k \in Max(0, i - topBottomLayers + 1)..i : k <= i => result[k + 1].isTop

\* C12 as stated: for every layer i, if the geometry drops within the next
\* N + 1 layers, layer i and the N - 1 layers before it are marked isTop.
C12_DropMarksBandForEveryLayer ==
    op = "analyzeLayerSequences" =>
        \A i \in 0..(Len(args.layers) - 1) :
            DropsAfter(i) => (result[i + 1].isTop /\ BandBelowIsTop(i))

\* C12 amended: for every layer i that is not among the last N layers, if the
\* geometry drops within the next N + 1 layers, the layers max(0, i - N + 1)..i
\* are marked isTop (no layer when N = 0); for a layer among the last N the
\* rule is not evaluated.
C12_DropMarksBandBelowLastN ==
    op = "analyzeLayerSequences" =>
        \A i \in 0..(Len(args.layers) - 1) :
            (DropsAfter(i) /\ i < Len(args.layers) - topBottomLayers) => BandBelowIsTop(i)

\* with N = 2 and no mesh, a drop after layer 1 of four marked layers 0 and 1
C12_Witness ==
    /\ op = "analyzeLayerSequences"
    /\ mesh = <<>>
    /\ topBottomLayers = 2
    /\ Len(args.layers) = 4
    /\ DropsAfter(1)
    /\ ~DropsAfter(0)
    /\ result[1].isTop /\ result[2].isTop

\* the detected surface heights, tripled
UpSurfaces3 == detectHorizontalSurfaces(mesh, layerHeight).topSurfaces
DownSurfaces3 == detectHorizontalSurfaces(mesh, layerHeight).bottomSurfaces
Tolerance3 == 3 * (topBottomLayers * layerHeight + layerHeight)
\* the layer is at or below an upward surface and less than the tolerance from it
BelowUpSurface(z) ==
    \E s \in 1..Len(UpSurfaces3) :
        3 * z <= UpSurfaces3[s] /\ UpSurfaces3[s] - 3 * z < Tolerance3
\* the layer is at or above a downward surface and less than the tolerance from it
AboveDownSurface(z) ==
    \E s \in 1..Len(DownSurfaces3) :
        3 * z >= DownSurfaces3[s] /\ 3 * z - DownSurfaces3[s] < Tolerance3
\* the same, with the layers up to one layer height on the other side included
NearUpSurface(z) ==
    \E s \in 1..Len(UpSurfaces3) :
        /\ Abs(UpSurfaces3[s] - 3 * z) < Tolerance3
        /\ 3 * z <= UpSurfaces3[s] + 3 * layerHeight
NearDownSurface(z) ==
    \E s \in 1..Len(DownSurfaces3) :
        /\ Abs(3 * z - DownSurfaces3[s]) < Tolerance3
        /\ 3 * z >= DownSurfaces3[s] - 3 * layerHeight
\* the other two rules do not mark layer k (from 1) isTop: it is not among the
\* last N, and no layer loses geometry to a later one
NoOtherTopRule(k) ==
    /\ k <= Len(args.layers) - topBottomLayers
    /\ \A i \in 1..Len(args.layers) : \A j \in 1..Len(args.layers) :
          i < j => /\ pathLength(args.layers[i].segments) <= pathLength(args.layers[j].segments)
                   /\ (Len(args.layers[j].segments) = 0 => Len(args.layers[i].segments) = 0)
\* the positional rule does not mark layer k (from 1) isBottom
NoOtherBottomRule(k) == k > topBottomLayers

\* C13 as stated: the surface rule marks a layer isTop exactly when it lies at
\* or below a detected upward surface within N * layerHeight + layerHeight of
\* it, and isBottom exactly when it lies at or above a detected downward surface
\* within the same distance.
C13_SurfaceRuleOneSided ==
    op = "analyzeLayerSequences" =>
        \A k \in 1..Len(result) :
            /\ BelowUpSurface(args.layers[k].z) => result[k].isTop
            /\ (result[k].isTop /\ NoOtherTopRule(k)) => BelowUpSurface(args.layers[k].z)
            /\ AboveDownSurface(args.layers[k].z) => result[k].isBottom
            /\ (result[k].isBottom /\ NoOtherBottomRule(k))
                  => AboveDownSurface(args.layers[k].z)

\* C13 amended: the surface rule marks a layer isTop exactly when, for some
\* detected upward surface, the layer is less than N * layerHeight + layerHeight
\* from it and no more than one layer height above it; and isBottom exactly
\* when, for some detected downward surface, it is less than that distance from
\* it and no more than one layer height below it.
C13_SurfaceRuleReachesOneLayerPast ==
    op = "analyzeLayerSequences" =>
        \A k \in 1..Len(result) :
            /\ NearUpSurface(args.layers[k].z) => result[k].isTop
            /\ (result[k].isTop /\ NoOtherTopRule(k)) => NearUpSurface(args.layers[k].z)
            /\ NearDownSurface(args.layers[k].z) => result[k].isBottom
            /\ (result[k].isBottom /\ NoOtherBottomRule(k))
                  => NearDownSurface(args.layers[k].z)

\* the stepped solid was classified with N = 1: the layer one layer height above
\* the slab's top face, in the middle of the tower, is isTop
C13_Witness ==
    /\ op = "analyzeLayerSequences"
    /\ mesh = StepSolid
    /\ topBottomLayers = 1
    /\ Len(args.layers) = 6
    /\ args.layers[3].z = 3 * layerHeight
    /\ NearUpSurface(args.layers[3].z)
    /\ ~BelowUpSurface(args.layers[3].z)
    /\ result[3].isTop
    /\ ~result[4].isTop

(***************************************************************************)
(* SpecSliceSTL: sliceSTL on the models of the plate                       *)
(***************************************************************************)
MaxCubeLayers == 5      \* cube heights are 2..MaxCubeLayers layer heights, and halves

CubeHeights ==
    {k * defaultLayerHeight : k \in 2..MaxCubeLayers}
      \cup {k * defaultLayerHeight + defaultLayerHeight \div 2 : k \in 2..MaxCubeLayers}

\* a cube of side h standing at height z0, its corner at x0 on the x axis
CubeModel(x0, z0, h) == [mesh |-> Box(x0, 0, z0, h, h, h), hasPreviewMesh |-> TRUE]

\* two cubes of different heights side by side on the plate, 1 mm apart
TwoCubes ==
    {<<CubeModel(0, 0, a), CubeModel(a + Mm(1), 0, b)>> :
        a \in CubeHeights, b \in CubeHeights} \ 
    {<<CubeModel(0, 0, a), CubeModel(a + Mm(1), 0, a)>> : a \in CubeHeights}

\* a cube on the plate and a second one standing half a layer or a whole layer
\* above it (the height of a model above the plate is the user's to set)
RaisedCubes ==
    {<<CubeModel(0, 0, a), CubeModel(a + Mm(1), z0, b)>> :
        a \in {2 * defaultLayerHeight, 3 * defaultLayerHeight},
        b \in {2 * defaultLayerHeight, 3 * defaultLayerHeight},
        z0 \in {defaultLayerHeight \div 2, defaultLayerHeight}}

\* a 1 x 1 mm square of two triangles lying flat at height z0: a mesh of no height
FlatModel(z0) ==
    [mesh |-> <<Tri(V3(0, 0, z0), V3(Mm(1), 0, z0), V3(Mm(1), Mm(1), z0)),
                Tri(V3(0, 0, z0), V3(Mm(1), Mm(1), z0), V3(0, Mm(1), z0))>>,
     hasPreviewMesh |-> TRUE]

PlateContents ==
    TwoCubes \cup RaisedCubes
      \cup {<<>>,
            <<[mesh |-> <<>>, hasPreviewMesh |-> FALSE]>>,
            <<[mesh |-> <<>>, hasPreviewMesh |-> TRUE]>>,
            <<CubeModel(0, 0, 2 * defaultLayerHeight)>>,
            <<CubeModel(0, -defaultLayerHeight, 2 * defaultLayerHeight)>>,
            <<CubeModel(0, defaultLayerHeight, 2 * defaultLayerHeight)>>,
            <<FlatModel(0)>>,
            <<FlatModel(defaultLayerHeight)>>,
            <<FlatModel(-defaultLayerHeight)>>}

\* the program loaded before the run: none, or a short one loaded from a file
EarlierProgram ==
    <<Plain("G28"), G1ZF(numberText(defaultLayerHeight), travelFeedrate), G0(0, 0),
      G1E(toFixed2(Mm(1)), 0, extrusionStep), Plain("M84")>>
EarlierPrograms == {<<>>, EarlierProgram}

InitSliceSTL ==
    /\ loadedModels \in PlateContents
    /\ mesh = <<>>
    /\ layerHeight = defaultLayerHeight
    /\ topBottomLayers \in 0..defaultTopBottomLayers
    /\ nozzleDiameter = defaultNozzleDiameter
    /\ op = "idle"
    /\ args \in {[pattern |-> pattern, density |-> density, proceed |-> proceed] :
                    pattern \in {"grid"}, density \in {20}, proceed \in BOOLEAN}
    /\ result = <<>>
    /\ currentGCode \in EarlierPrograms
    /\ commands = loadCommands(parse(currentGCode))
    /\ toast = noToast

CallSliceSTL ==
    /\ op = "idle"
    /\ Returns("sliceSTL", args,
               sliceSTL(loadedModels, layerHeight, topBottomLayers, nozzleDiameter,
                        args.pattern, args.density, args.proceed))
    /\ LET after == afterSliceSTL(loadedModels, result',
                                  [currentGCode |-> currentGCode, commands |-> commands,
                                   toast |-> toast])
       IN /\ currentGCode' = after.currentGCode
          /\ commands' = after.commands
          /\ toast' = after.toast
    /\ UNCHANGED <<loadedModels, slicerVars>>

NextSliceSTL == CallSliceSTL

SpecSliceSTL == InitSliceSTL /\ [][NextSliceSTL]_vars

\* The claims' vocabulary ---------------------------------------------------
\* the height of a model standing on the plate
ModelHeight(model) == getBoundingBox(model.mesh).max.z
\* the planes k * layerHeight that cut a model of height h: k = 1..(h \div layerHeight)
PlanesThrough(h) == h \div layerHeight
\* the combined layers at the top of a model: its last min(N, planes) planes
AtTopOf(h, z) ==
    /\ z <= h
    /\ z > (PlanesThrough(h) - topBottomLayers) * layerHeight

\* C10: when two non-overlapping cubes of different heights on the plate are
\* sliced by sliceSTL, the merged classification is isTop on the combined layers
\* at the top of the shorter cube as well as on those at the top of the taller.
C10_EachCubeHasItsOwnTop ==
    (op = "sliceSTL" /\ loadedModels \in TwoCubes) =>
        /\ result.outcome = "loaded"
        /\ Len(result.mergedSequences) = Len(result.layers)
        /\ \A m \in 1..2 : \A j \in 1..Len(result.layers) :
              AtTopOf(ModelHeight(loadedModels[m]), result.layers[j].z)
                  => result.mergedSequences[j].isTop

\* the shorter cube's top layers are below the last N combined layers, and the
\* layer above them is not a top layer
C10_Witness ==
    /\ op = "sliceSTL"
    /\ loadedModels \in TwoCubes
    /\ topBottomLayers = 1
    /\ \E m \in 1..2 : \E j \in 1..(Len(result.layers) - 2) :
          /\ AtTopOf(ModelHeight(loadedModels[m]), result.layers[j].z)
          /\ result.mergedSequences[j].isTop
          /\ ~result.mergedSequences[j + 1].isTop

\* the triangles the run slices: those of the models that have a preview mesh
CombinedMesh ==
    Concat([k \in 1..Len(loadedModels) |->
               IF loadedModels[k].hasPreviewMesh THEN loadedModels[k].mesh ELSE <<>>])
NoTrianglesOrNoHeight ==
    \/ CombinedMesh = <<>>
    \/ getBoundingBox(CombinedMesh).size.z = 0
\* the lowest point is more than 0.1 mm above the plate (of no triangles the
\* lowest point is Infinity)
Floating ==
    \/ CombinedMesh = <<>>
    \/ getBoundingBox(CombinedMesh).min.z * 10 > Mm(1)
\* preamble, every layer of the list, postamble
CompleteProgram(gcode, layers) ==
    /\ Len(layers) > 0
    /\ \E a \in 1..Len(gcode) :
          /\ gcode[a] = Plain("G28")
          /\ \A k \in 1..a : gcode[k].cmd = ";" => gcode[k].text # "Layer"
    /\ \A i \in 1..Len(layers) : \E k \in 1..(Len(gcode) - 1) :
          /\ gcode[k] = Comment("Layer", layers[i].layerNum + 1)
          /\ gcode[k + 1] = G1ZF(toFixed3(layers[i].z), travelFeedrate)
    /\ [k \in 1..4 |-> gcode[Len(gcode) - 4 + k].cmd] = <<"M104", "M140", "G28", "M84">>
\* the run loaded its program: text and simulator commands are the new ones
LoadsCompleteProgram ==
    /\ result'.outcome = "loaded"
    /\ CompleteProgram(result'.gcode, sliceMesh(CombinedMesh, layerHeight))
    /\ currentGCode' = result'.gcode
    /\ commands' = SelectSeq(result'.gcode, LAMBDA l : l.cmd \in {"G0", "G1"})
    /\ commands' # <<>>
\* the run refused: an error with its cause on screen, program and commands kept
SignalsFailure ==
    /\ result'.outcome # "loaded"
    /\ toast'.type = "error"
    /\ toast'.message # ""
    /\ currentGCode' = currentGCode
    /\ commands' = commands
\* the user declined to slice a floating model: nothing reported, nothing changed
DeclinedSilently ==
    /\ result'.outcome = "cancelled"
    /\ Floating
    /\ ~args.proceed
    /\ toast'.type # "error"
    /\ currentGCode' = currentGCode
    /\ commands' = commands

MaxGenLayers == 2       \* the layer lists hold up to MaxGenLayers layers

\* a square next to a smaller square: two loops in one layer
TwoSquaresSegments ==
    SquareSegments(Mm(1))
      \o [k \in 1..4 |-> Seg(P2(SquareSegments(Mm(1))[k].start.x + Mm(3),
                                SquareSegments(Mm(1))[k].start.y),
                             P2(SquareSegments(Mm(1))[k].end.x + Mm(3),
                                SquareSegments(Mm(1))[k].end.y))]

GenGeometries ==
    {<<>>, SquareSegments(Mm(1)), TwoSquaresSegments, SubSeq(SquareSegments(Mm(2)), 1, 3)}

GenLayerLists(lh) ==
    UNION {{[k \in 1..len |-> [layerNum |-> k - 1, z |-> k * lh, segments |-> g[k]]] :
               g \in [1..len -> GenGeometries]} : len \in 0..MaxGenLayers}

GenSequences(len) ==
    [1..len -> {[isBottom |-> b, isTop |-> t] : b \in BOOLEAN, t \in BOOLEAN}]

\* generateGCode classifies the layers itself, from the mesh and N;
\* generateGCodeWithSequences is handed the classification
InitGen ==
    /\ loadedModels = <<>>
    /\ nothingLoaded
    /\ layerHeight = defaultLayerHeight
    /\ nozzleDiameter = defaultNozzleDiameter
    /\ op = "idle"
    /\ \E sequences \in GenSequences(MaxGenLayers) \cup {<<>>} :
          /\ \/ sequences = <<>> /\ mesh \in ClassifyMeshes /\ topBottomLayers \in {0, 1}
             \/ mesh = <<>> /\ topBottomLayers = defaultTopBottomLayers
          /\ args \in {[layers |-> layers, pattern |-> pattern, density |-> density,
                        sequences |-> sequences] :
                          layers \in GenLayerLists(layerHeight),
                          pattern \in {"lines", "grid"}, density \in {0, 20}}
    /\ result = <<>>

CallGenerateGCode ==
    /\ op = "idle"
    /\ Returns("generateGCode", args,
               generateGCode(mesh, args.layers, layerHeight, topBottomLayers, nozzleDiameter,
                             args.pattern, args.density))
    /\ UNCHANGED <<loadedModels, slicerVars, uiVars>>

CallGenerateGCodeWithSequences ==
    /\ op = "idle"
    /\ Returns("generateGCodeWithSequences", args,
               generateGCodeWithSequences(args.layers, layerHeight, topBottomLayers,
                                          nozzleDiameter, args.pattern, args.density,
                                          args.sequences))
    /\ UNCHANGED <<loadedModels, slicerVars, uiVars>>

NextGen == CallGenerateGCode \/ CallGenerateGCodeWithSequences

SpecGen == InitGen /\ [][NextGen]_vars

\* the lines of a program that carry an E value, in emission order
ExtrudingLines(lines) == SelectSeq(lines, HasE)

\* C1: in the program returned by generateGCode and by
\* generateGCodeWithSequences, the E values read in emission order never
\* decrease, and the first of them is the counter's starting value 0.
C1_ExtrusionNeverDecreases ==
    op \in {"generateGCode", "generateGCodeWithSequences"} =>
        LET e == ExtrudingLines(result.lines)
        IN /\ Len(e) > 0 => e[1].E = initialExtrusionCounter
           /\ \A k \in 1..(Len(e) - 1) : e[k].E <= e[k + 1].E
           /\ \A k \in 1..Len(e) : e[k].cmd = "G1"

\* a program of MaxGenLayers layers whose last layer has a perimeter of two
\* loops followed by renumbered infill
C1_Witness ==
    /\ op \in {"generateGCode", "generateGCodeWithSequences"}
    /\ ~result.threw
    /\ Len(args.layers) = MaxGenLayers
    /\ args.layers[MaxGenLayers].segments = TwoSquaresSegments
    /\ \E k \in 1..(Len(result.lines) - 1) :
          /\ result.lines[k].cmd = "G0"
          /\ "text" \notin DOMAIN result.lines[k]
          /\ HasE(result.lines[k + 1])
          /\ result.lines[k + 1].E > extrusionStep
          /\ \E j \in (k + 2)..Len(result.lines) : result.lines[j].cmd = "G0"

\* the classification the generator works with
GenFlags ==
    IF op = "generateGCode"
    THEN analyzeLayerSequences(mesh, layerHeight, topBottomLayers, args.layers)
    ELSE args.sequences
\* the lines that follow the infill comment of layer i (from 1) in the program
LayerCommentAt(i) ==
    CHOOSE k \in 1..Len(result.lines) :
        result.lines[k] = Comment("Layer", args.layers[i].layerNum + 1)
FirstAfter(k, cmds) ==
    CHOOSE j \in (k + 1)..Len(result.lines) :
        /\ result.lines[j].cmd \in cmds
        /\ \A h \in (k + 1)..(j - 1) : result.lines[h].cmd \notin cmds
InfillLinesOf(i) ==
    LET c == FirstAfter(LayerCommentAt(i), {";"})
    IN IF result.lines[c].text \in {"Sparse infill", "Solid layer (bottom)", "Solid layer (top)"}
       THEN SubSeq(result.lines, c + 1, FirstAfter(c, {";", ""}) - 1)
       ELSE <<>>
\* the moves of a list of infill lines, without their E values
Moves(ls) == [j \in 1..Len(ls) |-> <<ls[j].cmd, ls[j].X, ls[j].Y>>]
\* the fill of layer i (from 1) at one angle
FillAtAngle(i, angle) ==
    LET paths == segmentsToPerimeter(args.layers[i].segments)
    IN generateLayerInfill(getLayerBoundingBox(Concat(paths)), nozzleDiameter, "lines",
                           IF GenFlags[i].isTop \/ GenFlags[i].isBottom THEN 100
                           ELSE args.density,
                           paths, angle)
\* layer i is filled at angle 0, and at angle 90 too when it is solid or the
\* pattern is 'grid'
FilledAsStated(i) ==
    Moves(InfillLinesOf(i))
      = Moves(FillAtAngle(i, 0)
              \o (IF GenFlags[i].isTop \/ GenFlags[i].isBottom \/ args.pattern = "grid"
                  THEN FillAtAngle(i, 90) ELSE <<>>))
\* in generateGCode every layer with a path is filled that way
GenerateGCodeFillsAsStated ==
    (op = "generateGCode" /\ ~result.threw) =>
        \A i \in 1..Len(args.layers) :
            Len(segmentsToPerimeter(args.layers[i].segments)) > 0 => FilledAsStated(i)

\* C14: in generateGCode and in generateGCodeWithSequences, a sparse layer is
\* filled at angle 0 and at angle 90 when the pattern is 'grid' and at angle 0
\* only for any other pattern, and a top or bottom layer is filled solid at both
\* angles whatever the pattern.
C14_GridFillsBothAnglesInBothGenerators ==
    (op \in {"generateGCode", "generateGCodeWithSequences"} /\ ~result.threw) =>
        \A i \in 1..Len(args.layers) :
            Len(segmentsToPerimeter(args.layers[i].segments)) > 0 => FilledAsStated(i)

\* the index of the comment that opens the postamble
PostambleAt ==
    CHOOSE k \in 1..Len(result.lines) :
        /\ result.lines[k].cmd = ";"
        /\ result.lines[k].text \in {"Finish", "Print complete"}
\* the last line of layer i's section (from 1)
SectionEnd(i) ==
    IF i < Len(args.layers) THEN LayerCommentAt(i + 1) - 1 ELSE PostambleAt - 1
\* the index of layer i's infill comment, or of the line after its section
InfillCommentAt(i) ==
    LET c == FirstAfter(LayerCommentAt(i), {";"})
    IN IF c <= SectionEnd(i) THEN c ELSE SectionEnd(i) + 1
\* the first point of a path: an extruding move without a feedrate
IsFirstPoint(line) == line.cmd = "G1" /\ HasE(line) /\ "F" \notin DOMAIN line
IsTravel(line) == line.cmd = "G0" /\ ~HasE(line)
\* the points of layer i's paths in order, as the program prints them
PrintedPoints(i) ==
    LET pts == Concat(segmentsToPerimeter(args.layers[i].segments))
    IN [k \in 1..Len(pts) |-> <<"G1", toFixed2(pts[k].x), toFixed2(pts[k].y)>>]

PreambleFirst ==
    LET first == LayerCommentAt(1)
    IN /\ \E a \in 1..(first - 1) : \E b \in (a + 1)..(first - 1) : \E c \in (b + 1)..(first - 1) :
             /\ result.lines[a] = Plain("G28")
             /\ result.lines[b] = SetTemp("M104", nozzleTemp)
             /\ result.lines[c] = SetTemp("M140", bedTemp)
       /\ \A k \in 1..(first - 1) : "X" \notin DOMAIN result.lines[k]
       /\ \A k \in first..(PostambleAt - 1) :
             result.lines[k].cmd \notin {"G28", "M104", "M140", "M84"}
PostambleLast ==
    /\ \A i \in 1..Len(args.layers) : LayerCommentAt(i) < PostambleAt
    /\ [k \in 1..(Len(result.lines) - PostambleAt) |-> result.lines[PostambleAt + k].cmd]
          = <<"G1", "M104", "M140", "G28", "M84">>
    /\ \A k \in PostambleAt..Len(result.lines) : "X" \notin DOMAIN result.lines[k]
LayersInIncreasingZ ==
    /\ \A i \in 1..Len(args.layers) :
          result.lines[LayerCommentAt(i) + 1] = G1ZF(toFixed3(args.layers[i].z), travelFeedrate)
    /\ \A i \in 1..(Len(args.layers) - 1) :
          /\ LayerCommentAt(i) < LayerCommentAt(i + 1)
          /\ result.lines[LayerCommentAt(i) + 1].Z < result.lines[LayerCommentAt(i + 1) + 1].Z
\* between the plane move and the infill comment: the points of every path in
\* order, and nothing else but travel moves; after the comment: no perimeter
PerimetersThenInfill(i) ==
    LET from == LayerCommentAt(i) + 2
        c == InfillCommentAt(i)
        perimeter == SubSeq(result.lines, from, c - 1)
    IN /\ Moves(SelectSeq(perimeter, HasE)) = PrintedPoints(i)
       /\ \A k \in 1..Len(perimeter) :
             HasE(perimeter[k]) \/ IsTravel(perimeter[k]) \/ perimeter[k] = Blank
       /\ \A k \in (c + 1)..SectionEnd(i) :
             \/ result.lines[k] = Blank
             \/ IsTravel(result.lines[k]) /\ "text" \notin DOMAIN result.lines[k]
             \/ HasE(result.lines[k]) /\ result.lines[k].F = fillFeedrate
                  /\ IsTravel(result.lines[k - 1])
       /\ (Len(PrintedPoints(i)) > 0
             /\ (GenFlags[i].isTop \/ GenFlags[i].isBottom \/ args.density > 0))
            => c <= SectionEnd(i)
\* the first point of every path after the first comes straight after a travel
\* move to that point
TravelBeforeLaterPaths(i) ==
    LET from == LayerCommentAt(i) + 2
        c == InfillCommentAt(i)
        paths == segmentsToPerimeter(args.layers[i].segments)
        firsts == SelectSeq([k \in 1..(c - from) |-> from + k - 1],
                            LAMBDA k : IsFirstPoint(result.lines[k]))
    IN /\ Len(firsts) = Len(paths)
       /\ \A p \in 1..Len(paths) :
             /\ result.lines[firsts[p]].X = toFixed2(paths[p][1].x)
             /\ result.lines[firsts[p]].Y = toFixed2(paths[p][1].y)
             /\ p > 1 => /\ IsTravel(result.lines[firsts[p] - 1])
                         /\ result.lines[firsts[p] - 1].X = result.lines[firsts[p]].X
                         /\ result.lines[firsts[p] - 1].Y = result.lines[firsts[p]].Y

\* C15: the program is one preamble (home, temperatures), then the layers in
\* increasing Z, each as a plane-height move, then all its perimeter paths, then
\* its infill, and finally the postamble; within a layer the first point of
\* every path after the first is immediately preceded by a G0 travel line to
\* that point that carries no E.
C15_ProgramOrder ==
    (op \in {"generateGCode", "generateGCodeWithSequences"} /\ ~result.threw) =>
        /\ PreambleFirst
        /\ LayersInIncreasingZ
        /\ PostambleLast
        /\ \A i \in 1..Len(args.layers) : PerimetersThenInfill(i) /\ TravelBeforeLaterPaths(i)

\* a program of MaxGenLayers layers whose first layer has two loops and infill,
\* with the travel move between the loops
C15_Witness ==
    /\ op \in {"generateGCode", "generateGCodeWithSequences"}
    /\ ~result.threw
    /\ Len(args.layers) = MaxGenLayers
    /\ args.layers[1].segments = TwoSquaresSegments
    /\ Len(segmentsToPerimeter(args.layers[1].segments)) = 2
    /\ InfillCommentAt(1) <= SectionEnd(1)
    /\ \E k \in (LayerCommentAt(1) + 3)..(InfillCommentAt(1) - 1) :
          IsFirstPoint(result.lines[k]) /\ IsTravel(result.lines[k - 1])
    /\ \E k \in (InfillCommentAt(1) + 1)..SectionEnd(1) : HasE(result.lines[k])

\* the layers of one solid sliced on its own, and their classification
SolidLayers(model) == sliceMesh(model.mesh, layerHeight)
SolidFlags(model) ==
    analyzeLayerSequences(model.mesh, layerHeight, topBottomLayers, SolidLayers(model))
\* two heights less than 0.001 mm apart
SameZ(za, zb) == Abs(za - zb) * 25 < 1

\* the merged flag is the OR of the flags of the solids' layers at that height
MergeIsOrAtSameHeight ==
    (op = "sliceSTL" /\ result.outcome = "loaded") =>
        \A j \in 1..Len(result.layers) :
           /\ result.mergedSequences[j].isTop <=>
                 \E m \in 1..Len(loadedModels) : \E i \in 1..Len(SolidLayers(loadedModels[m])) :
                    /\ SameZ(SolidLayers(loadedModels[m])[i].z, result.layers[j].z)
                    /\ SolidFlags(loadedModels[m])[i].isTop
           /\ result.mergedSequences[j].isBottom <=>
                 \E m \in 1..Len(loadedModels) : \E i \in 1..Len(SolidLayers(loadedModels[m])) :
                    /\ SameZ(SolidLayers(loadedModels[m])[i].z, result.layers[j].z)
                    /\ SolidFlags(loadedModels[m])[i].isBottom

\* C11: in sliceSTL's merge, for any placement of the solids, a combined layer's
\* flag is set if and only if some solid has a layer at the same height that its
\* own classification flagged, and every flagged per-solid layer finds its
\* combined layer and transfers the flag.
C11_EveryFlaggedLayerTransfers ==
    (op = "sliceSTL" /\ result.outcome = "loaded") =>
        /\ MergeIsOrAtSameHeight
        /\ \A m \in 1..Len(loadedModels) : \A i \in 1..Len(SolidLayers(loadedModels[m])) :
              (SolidFlags(loadedModels[m])[i].isTop \/ SolidFlags(loadedModels[m])[i].isBottom)
                 => \E j \in 1..Len(result.layers) :
                       SameZ(SolidLayers(loadedModels[m])[i].z, result.layers[j].z)

(***************************************************************************)
(* SpecLoad: parseSTL and handleSTLUpload on small binary and text files   *)
(***************************************************************************)
MaxFacets == 2          \* a file holds up to MaxFacets triangle records or facets

\* the triangles the files hold
FileTriangle(k) == Tri(V3(0, 0, 0), V3(Mm(k), 0, 0), V3(0, Mm(k), Mm(k)))
FileRecords(n) == [k \in 1..n |-> FileTriangle(k)]

\* a binary file of n whole records that declares count triangles, with tail
\* bytes more (tail > 0) or fewer (tail < 0) than 84 + 50 * n
BinaryFile(n, count, tail) ==
    [bytes |-> headerBytes + countBytes + recordBytes * n + tail,
     solid |-> FALSE,
     count |-> count,
     records |-> FileRecords(IF tail >= vertexBytes - recordBytes THEN n ELSE n - 1),
     lines |-> <<>>]
BinaryFiles ==
    {BinaryFile(n, count, tail) :
        n \in 0..MaxFacets, count \in 0..(MaxFacets + 1), tail \in {-10, -2, 0, 10}}
      \ {BinaryFile(0, count, tail) : count \in 0..(MaxFacets + 1), tail \in {-10, -2}}
\* buffers that end inside the header or inside the count
StubFiles ==
    {[bytes |-> b, solid |-> sol, count |-> 0, records |-> <<>>, lines |-> <<>>] :
        b \in {headerBytes \div 2, headerBytes + countBytes \div 2}, sol \in BOOLEAN}

Word(w) == [word |-> w]
VertexLine(k) == [word |-> "vertex", x |-> Mm(k), y |-> Mm(k) * (k % 2), z |-> Mm(k) * (k \div 2)]
\* a facet record with v vertex lines
FacetBlock(v) ==
    <<Word("facet"), Word("outer")>> \o [k \in 1..v |-> VertexLine(k)]
      \o <<Word("endloop"), Word("endfacet")>>
TextFile(blocks) ==
    [bytes |-> headerBytes + recordBytes * (Len(blocks) + 1),
     solid |-> TRUE,
     count |-> 0,
     records |-> <<>>,
     lines |-> <<Word("solid")>> \o Concat(blocks) \o <<Word("endsolid")>>]
TextFiles ==
    UNION {{TextFile([k \in 1..n |-> FacetBlock(v[k])]) : v \in [1..n -> 0..4]} :
              n \in 0..MaxFacets}
      \cup {TextFile(<<<<VertexLine(1)>>, FacetBlock(3)>>)}

StlFiles == BinaryFiles \cup StubFiles \cup TextFiles

\* the plate before the upload: empty, or one cube
PlatesBefore == {<<>>, <<CubeModel(0, 0, 2 * defaultLayerHeight)>>}

InitLoad ==
    /\ loadedModels \in PlatesBefore
    /\ mesh = <<>>
    /\ layerHeight = defaultLayerHeight
    /\ topBottomLayers = defaultTopBottomLayers
    /\ nozzleDiameter = defaultNozzleDiameter
    /\ op = "idle"
    /\ args \in {[file |-> f] : f \in StlFiles}
    /\ result = <<>>
    /\ nothingLoaded

\* a slicer parses the file: this.mesh is assigned when the parse returns
CallParseSTL ==
    /\ op = "idle"
    /\ Returns("parseSTL", args, parseSTL(args.file))
    /\ mesh' = IF parseSTL(args.file).threw THEN mesh ELSE parseSTL(args.file).mesh
    /\ UNCHANGED <<loadedModels, layerHeight, topBottomLayers, nozzleDiameter, uiVars>>

\* the user uploads the file; the slicer that parses it is the handler's own
CallHandleSTLUpload ==
    /\ op = "idle"
    /\ LET after == handleSTLUpload(args.file, loadedModels, toast)
       IN /\ Returns("handleSTLUpload", args, after.loadedModels)
          /\ loadedModels' = after.loadedModels
          /\ toast' = after.toast
    /\ UNCHANGED <<slicerVars, currentGCode, commands>>

NextLoad == CallParseSTL \/ CallHandleSTLUpload

SpecLoad == InitLoad /\ [][NextLoad]_vars

\* The claims' vocabulary ---------------------------------------------------
\* the declared count does not match the length of the buffer
CountMismatch(file) ==
    ~file.solid /\ file.bytes # headerBytes + countBytes + recordBytes * file.count
\* the number of vertex lines of the facet record opened at line f
VertexLinesOf(lines, f) ==
    LET close == CHOOSE e \in (f + 1)..(Len(lines) + 1) :
                    /\ e <= Len(lines) => lines[e].word \in {"facet", "endfacet"}
                    /\ \A h \in (f + 1)..(e - 1) : lines[h].word \notin {"facet", "endfacet"}
    IN Cardinality({h \in (f + 1)..(close - 1) : lines[h].word = "vertex"})
\* some facet record of the text does not hold exactly three vertex lines
BadFacet(file) ==
    /\ file.solid
    /\ \E f \in 1..Len(file.lines) :
          file.lines[f].word = "facet" /\ VertexLinesOf(file.lines, f) # 3

\* a binary buffer that ends before the last vertex of the declared count fails
TruncatedBinaryFails ==
    op = "parseSTL" =>
        ((~args.file.solid
            /\ args.file.bytes
                 < headerBytes + countBytes + recordBytes * args.file.count
                     - (recordBytes - vertexBytes))
           => result.threw /\ mesh = <<>>)

\* C17: parseSTL fails, returning no mesh, when a binary input's declared
\* triangle count does not match the buffer length 84 + 50 * count (shorter or
\* longer), and when a text input has a facet record that does not hold exactly
\* three vertex lines between facet and endfacet.
C17_MismatchOrBadFacetFails ==
    op = "parseSTL" =>
        ((args.file.bytes >= headerBytes /\ (CountMismatch(args.file) \/ BadFacet(args.file)))
           => result.threw /\ mesh = <<>>)

\* the load failed: the parse threw, or it gave no triangle
LoadFails(file) == parseSTL(file).threw \/ Len(parseSTL(file).mesh) = 0

\* C18: when loading an STL fails (the parse throws on a malformed or truncated
\* input, or the input yields no triangle), the list of loaded models and the
\* mesh of each of them stay as they were, no model is added, and the failure is
\* shown as an error; a load that does not fail adds exactly the parsed model.
C18_FailedLoadLeavesModels ==
    [][op' = "handleSTLUpload" =>
          IF LoadFails(args.file)
          THEN loadedModels' = loadedModels /\ toast'.type = "error"
          ELSE /\ Len(loadedModels') = Len(loadedModels) + 1
               /\ SubSeq(loadedModels', 1, Len(loadedModels)) = loadedModels
               /\ loadedModels'[Len(loadedModels')].mesh = parseSTL(args.file).mesh
               /\ toast' = toast]_vars

\* a text file whose only facet lacks a vertex was uploaded onto a plate with one
\* cube: the cube is still the only model, and the error is shown
C18_Witness ==
    /\ op = "handleSTLUpload"
    /\ args.file = TextFile(<<FacetBlock(2)>>)
    /\ loadedModels = <<CubeModel(0, 0, 2 * defaultLayerHeight)>>
    /\ toast.type = "error"

(***************************************************************************)
(* SpecRepeat: the operations of one slicer called one after another, in   *)
(* any order, on the same mesh and layer list with the same settings       *)
(***************************************************************************)
MaxRuns == 3            \* the slicer is called up to MaxRuns times

RepeatMeshes ==
    {Box(0, 0, 0, Mm(2), Mm(2), 2 * defaultLayerHeight),
     Box(0, 0, 0, Mm(1), Mm(1), 4 * defaultLayerHeight),
     StepSolid}

\* args holds the layer list the caller keeps, the settings, the number of calls
\* made, and the argument of the last call (a layer index, a height, an angle)
InitRepeat ==
    /\ loadedModels = <<>>
    /\ nothingLoaded
    /\ mesh \in RepeatMeshes
    /\ layerHeight \in {defaultLayerHeight, 2 * defaultLayerHeight}
    /\ topBottomLayers \in {0, 1}
    /\ nozzleDiameter = defaultNozzleDiameter
    /\ op = "idle"
    /\ args \in {[layers |-> sliceMesh(mesh, layerHeight), pattern |-> pattern,
                  density |-> density, run |-> 0, input |-> <<>>] :
                    pattern \in {"lines", "grid"}, density \in {0, 20}}
    /\ result = <<>>

\* the arguments after a call: the layer list as the call left it
NextRun(layers, input) ==
    [args EXCEPT !.run = args.run + 1, !.layers = layers, !.input = input]

RunSliceAtZ ==
    /\ args.run < MaxRuns
    /\ \E k \in 1..Len(args.layers) :
          Returns("sliceAtZ", NextRun(args.layers, <<k>>), sliceAtZ(mesh, args.layers[k].z))
    /\ UNCHANGED <<loadedModels, slicerVars, uiVars>>

RunSliceMesh ==
    /\ args.run < MaxRuns
    /\ Returns("sliceMesh", NextRun(args.layers, <<>>), sliceMesh(mesh, layerHeight))
    /\ UNCHANGED <<loadedModels, slicerVars, uiVars>>

RunAnalyzeLayerSequences ==
    /\ args.run < MaxRuns
    /\ Returns("analyzeLayerSequences", NextRun(args.layers, <<>>),
               analyzeLayerSequences(mesh, layerHeight, topBottomLayers, args.layers))
    /\ UNCHANGED <<loadedModels, slicerVars, uiVars>>

RunSegmentsToPerimeter ==
    /\ args.run < MaxRuns
    /\ \E k \in 1..Len(args.layers) :
          Returns("segmentsToPerimeter",
                  NextRun([args.layers EXCEPT
                              ![k].segments = segmentsLeftToCaller(args.layers[k].segments)],
                          <<k>>),
                  segmentsToPerimeter(args.layers[k].segments))
    /\ UNCHANGED <<loadedModels, slicerVars, uiVars>>

RunGenerateLayerInfill ==
    /\ args.run < MaxRuns
    /\ \E k \in 1..Len(args.layers) : \E angle \in {0, 90} :
          LET paths == segmentsToPerimeter(args.layers[k].segments)
          IN Returns("generateLayerInfill", NextRun(args.layers, <<k, angle>>),
                     generateLayerInfill(getLayerBoundingBox(Concat(paths)), nozzleDiameter,
                                         args.pattern, args.density, paths, angle))
    /\ UNCHANGED <<loadedModels, slicerVars, uiVars>>

RunGenerateGCode ==
    /\ args.run < MaxRuns
    /\ Returns("generateGCode", NextRun(layersLeftToCaller(args.layers), <<>>),
               generateGCode(mesh, args.layers, layerHeight, topBottomLayers,
                             nozzleDiameter, args.pattern, args.density))
    /\ UNCHANGED <<loadedModels, slicerVars, uiVars>>

RunGenerateGCodeWithSequences ==
    /\ args.run < MaxRuns
    /\ Returns("generateGCodeWithSequences", NextRun(layersLeftToCaller(args.layers), <<>>),
               generateGCodeWithSequences(
                   args.layers, layerHeight, topBottomLayers, nozzleDiameter,
                   args.pattern, args.density,
                   analyzeLayerSequences(mesh, layerHeight, topBottomLayers, args.layers)))
    /\ UNCHANGED <<loadedModels, slicerVars, uiVars>>

NextRepeat ==
    \/ RunSliceAtZ
    \/ RunSliceMesh
    \/ RunAnalyzeLayerSequences
    \/ RunSegmentsToPerimeter
    \/ RunGenerateLayerInfill
    \/ RunGenerateGCode
    \/ RunGenerateGCodeWithSequences

SpecRepeat == InitRepeat /\ [][NextRepeat]_vars

StepInputs ==
    SeqsUpTo(TraceSegments, MaxSegments)
        \cup {CubeSegments, [i \in 1..Len(CubeSegments) |-> CubeSegments[Len(CubeSegments) + 1 - i]]}

InitTraceSteps ==
    /\ loadedModels = <<>>
    /\ nothingLoaded
    /\ mesh = <<>>
    /\ layerHeight = defaultLayerHeight
    /\ topBottomLayers = defaultTopBottomLayers
    /\ nozzleDiameter = defaultNozzleDiameter
    /\ op = "idle"
    /\ args \in {[segments |-> segments] : segments \in StepInputs}
    /\ result = <<>>

\* lines 708-713: the early return for an empty list, else the copy and the
\* empty path list
TraceEnter ==
    /\ op = "idle"
    /\ op' = IF Len(args.segments) = 0 THEN "returned" ELSE "while"
    /\ result' = [unusedSegments |-> args.segments, paths |-> <<>>, chains |-> <<>>,
                  currentPath |-> <<>>]
    /\ UNCHANGED <<loadedModels, slicerVars, uiVars, args>>

\* lines 715-723: a chain starts with the first unused segment
TraceStartChain ==
    /\ op = "while"
    /\ Len(result.unusedSegments) > 0
    /\ LET firstSeg == Head(result.unusedSegments)
       IN result' = [result EXCEPT
                        !.unusedSegments = Tail(@),
                        !.currentPath = <<P2(firstSeg.start.x, firstSeg.start.y),
                                          P2(firstSeg.end.x, firstSeg.end.y)>>]
    /\ op' = "extending"
    /\ UNCHANGED <<loadedModels, slicerVars, uiVars, args>>

\* lines 726-750: one pass of the inner loop that finds a connecting segment
TraceConnect ==
    /\ op = "extending"
    /\ Len(result.unusedSegments) > 0
    /\ LET lastPoint == result.currentPath[Len(result.currentPath)]
           i == firstConnection(result.unusedSegments, lastPoint)
       IN /\ i # 0
          /\ LET seg == result.unusedSegments[i]
                 next == IF withinTolerance(lastPoint, seg.start) THEN seg.end ELSE seg.start
             IN result' = [result EXCEPT
                              !.unusedSegments = splice(@, i),
                              !.currentPath = Append(@, P2(next.x, next.y))]
    /\ UNCHANGED <<loadedModels, slicerVars, uiVars, args, op>>

\* lines 726, 753-756: no segment is left or none connects; the chain is kept
\* when it has 3 points
TraceEndChain ==
    /\ op = "extending"
    /\ \/ Len(result.unusedSegments) = 0
       \/ firstConnection(result.unusedSegments,
                          result.currentPath[Len(result.currentPath)]) = 0
    /\ result' = [result EXCEPT
                     !.chains = Append(@, result.currentPath),
                     !.paths = IF keepPath(result.currentPath)
                               THEN Append(@, result.currentPath) ELSE @,
                     !.currentPath = <<>>]
    /\ op' = "while"
    /\ UNCHANGED <<loadedModels, slicerVars, uiVars, args>>

\* lines 715, 759: the outer loop ends when no segment is unused
TraceReturn ==
    /\ op = "while"
    /\ Len(result.unusedSegments) = 0
    /\ op' = "returned"
    /\ UNCHANGED <<loadedModels, slicerVars, uiVars, args, result>>

NextTraceSteps ==
    \/ TraceEnter
    \/ TraceStartChain
    \/ TraceConnect
    \/ TraceEndChain
    \/ TraceReturn

\* the function runs to its end without interruption: a step that can be taken
\* is taken
SpecTraceSteps == InitTraceSteps /\ [][NextTraceSteps]_vars /\ WF_vars(NextTraceSteps)

RECURSIVE IsSubsequence(_, _)
IsSubsequence(s, t) ==
    IF s = <<>> THEN TRUE
    ELSE IF t = <<>> THEN FALSE
    ELSE IF Head(s) = Head(t) THEN IsSubsequence(Tail(s), Tail(t))
    ELSE IsSubsequence(s, Tail(t))

RECURSIVE TotalPoints(_)
TotalPoints(chains) ==
    IF chains = <<>> THEN 0 ELSE Len(Head(chains)) + TotalPoints(Tail(chains))

\* the chains built so far, the one under construction included
ChainsBuilt == IF op = "extending" THEN Append(result.chains, result.currentPath)
               ELSE result.chains

\* every segment that left the unused pool added exactly one point to exactly
\* one chain, and every chain has one point more than segments
TakenExactlyOnce ==
    op \in {"while", "extending", "returned"} =>
        /\ IsSubsequence(result.unusedSegments, args.segments)
        /\ TotalPoints(ChainsBuilt) =
              (Len(args.segments) - Len(result.unusedSegments)) + Len(ChainsBuilt)
        /\ op = "returned" =>
              /\ result.unusedSegments = <<>>
              /\ TotalPoints(result.chains) = Len(args.segments) + Len(result.chains)
              /\ result.paths = segmentsToPerimeter(args.segments)
              /\ result.chains = traceChains(args.segments)

\* C25: segmentsToPerimeter terminates for every finite segment list, and each
\* input segment is taken from the unused pool exactly once: the points of all
\* chains built (returned or discarded) number exactly segments + chains.
C25_TerminatesTakingEachSegmentOnce ==
    /\ []TakenExactlyOnce
    /\ <>(op = "returned")

\* the function returned after building a kept chain and a discarded one
C25_Witness ==
    /\ op = "returned"
    /\ Len(args.segments) = MaxSegments
    /\ Len(result.chains) > Len(result.paths)
    /\ Len(result.paths) > 0

(***************************************************************************)
(* SpecParse: GCodeParser.parse reading a program line by line.  The       *)
(* programs are the ones the slicer emits for sliced solids, and short     *)
(* programs written by hand.  result is the parser with the locals of      *)
(* parse.                                                                  *)
(***************************************************************************)
MaxLines == 3           \* the programs written by hand hold up to MaxLines lines

HandLines ==
    {[cmd |-> "G1", X |-> 1000, E |-> 3],
     [cmd |-> "G1", Y |-> 1000, E |-> 6, F |-> fillFeedrate],
     [cmd |-> "G1", E |-> 2],
     [cmd |-> "G1", Z |-> 200, F |-> travelFeedrate],
     [cmd |-> "G0", X |-> 2000, Y |-> 2000],
     Comment("Layer", 2),
     Comment("layer change", 0),
     Comment("now layer", 5),
     Plain("G28")}

HandPrograms == SeqsUpTo(HandLines, MaxLines)

\* the programs of both generators for the layers of a sliced solid
EmittedPrograms ==
    UNION {LET layers == sliceMesh(m, lh)
               a == generateGCode(m, layers, lh, n, defaultNozzleDiameter, pattern, density)
               b == generateGCodeWithSequences(layers, lh, n, defaultNozzleDiameter, pattern,
                        density, analyzeLayerSequences(m, lh, n, layers))
           IN {[gcode |-> r.lines, layers |-> layers, emitted |-> TRUE] : r \in {a, b}}
          : m \in RepeatMeshes, lh \in {defaultLayerHeight, 2 * defaultLayerHeight},
            n \in {0, 1}, pattern \in {"lines", "grid"}, density \in {0, 20}}

InitParse ==
    /\ loadedModels = <<>>
    /\ nothingLoaded
    /\ mesh = <<>>
    /\ layerHeight = defaultLayerHeight
    /\ topBottomLayers = defaultTopBottomLayers
    /\ nozzleDiameter = defaultNozzleDiameter
    /\ op = "idle"
    /\ args \in EmittedPrograms
                  \cup {[gcode |-> g, layers |-> <<>>, emitted |-> FALSE] : g \in HandPrograms}
    /\ result = <<>>

\* lines 18-34
ParseEnter ==
    /\ op = "idle"
    /\ op' = "parse"
    /\ result' = startOfParse(args.gcode)
    /\ UNCHANGED <<loadedModels, slicerVars, uiVars, args>>

\* lines 37-75
ParseLine ==
    /\ op = "parse"
    /\ result.index < Len(args.gcode)
    /\ result' = parseOneLine(result, args.gcode[result.index + 1])
    /\ UNCHANGED <<loadedModels, slicerVars, uiVars, args, op>>

\* lines 77-78
ParseReturn ==
    /\ op = "parse"
    /\ result.index = Len(args.gcode)
    /\ op' = "parsed"
    /\ UNCHANGED <<loadedModels, slicerVars, uiVars, args, result>>

NextParse == ParseEnter \/ ParseLine \/ ParseReturn

SpecParse == InitParse /\ [][NextParse]_vars

\* the moves among the commands parsed so far
MoveIndexes == {k \in 1..Len(result.commands) : result.commands[k].type = "move"}

\* the E value of the last G0/G1 line before line i (from 1) that has one, else 0
LastEBefore(gcode, i) ==
    LET js == {j \in 1..(i - 1) : gcode[j].cmd \in {"G0", "G1"} /\ HasE(gcode[j])}
    IN IF js = {} THEN 0 ELSE gcode[SetMax(js)].E

Origin == [x |-> 0, y |-> 0, z |-> 0, e |-> 0]

\* C23: parse keeps cumulative X/Y/Z/E state across lines: a parameter absent
\* from a line keeps its previous value, each move's from is the previous
\* move's to (0,0,0,0 for the first), and a G0/G1 move is extruding exactly when
\* its line carries an E greater than the E accumulated from the moves before.
C23_CumulativeStateAndExtruding ==
    op \in {"parse", "parsed"} =>
        \A k \in MoveIndexes :
            LET move == result.commands[k]
                line == args.gcode[move.line + 1]
                before == {j \in MoveIndexes : j < k}
            IN /\ move.from = IF before = {} THEN Origin
                              ELSE result.commands[SetMax(before)].to
               /\ move.to.x = IF "X" \in DOMAIN line THEN line.X ELSE move.from.x
               /\ move.to.y = IF "Y" \in DOMAIN line THEN line.Y ELSE move.from.y
               /\ move.to.z = IF "Z" \in DOMAIN line THEN line.Z ELSE move.from.z
               /\ move.to.e = IF "E" \in DOMAIN line THEN line.E ELSE move.from.e
               /\ move.from.e = LastEBefore(args.gcode, move.line + 1)
               /\ move.extruding <=>
                     (HasE(line) /\ line.E > LastEBefore(args.gcode, move.line + 1))

\* a program written by hand was parsed whose last move pulls the filament back
\* after an extruding move: it carries E and is not extruding
C23_Witness ==
    /\ op = "parsed"
    /\ ~args.emitted
    /\ Len(result.commands) = MaxLines
    /\ result.commands[1].type = "move" /\ result.commands[1].extruding
    /\ result.commands[MaxLines].type = "move"
    /\ HasE(args.gcode[MaxLines])
    /\ ~result.commands[MaxLines].extruding
    /\ result.commands[MaxLines].from.x # 0

\* the comment lines before line i (from 1) that contain "layer"
LayerWordLines(gcode, i) ==
    {j \in 1..(i - 1) : gcode[j].cmd = ";" /\ containsLayer(gcode[j].text)}

\* the comment lines before line i in which "layer" is followed by a number
LayerNumberLines(gcode, i) ==
    {j \in 1..(i - 1) : gcode[j].cmd = ";" /\ layerNumberPattern(gcode[j].text)}

\* the Z of the last G0/G1 line before line i that has one, else 0
LastZBefore(gcode, i) ==
    LET js == {j \in 1..(i - 1) : gcode[j].cmd \in {"G0", "G1"} /\ "Z" \in DOMAIN gcode[j]}
    IN IF js = {} THEN 0 ELSE gcode[SetMax(js)].Z

\* the moves of lines a..b that carry a Z other than the last Z before them
ZChanges(gcode, a, b) ==
    {j \in a..b : /\ gcode[j].cmd \in {"G0", "G1"}
                  /\ "Z" \in DOMAIN gcode[j]
                  /\ gcode[j].Z # LastZBefore(gcode, j)}

IsFirstPointLine(line) == line.cmd = "G1" /\ HasE(line) /\ "F" \notin DOMAIN line

RECURSIVE PathCount(_)
PathCount(layers) ==
    IF layers = <<>> THEN 0
    ELSE Len(segmentsToPerimeter(Head(layers).segments)) + PathCount(Tail(layers))

\* C26: in every program the slicer emits, the G1 line to the first point of
\* each perimeter path carries the last E value emitted before it (0 for the
\* very first) and the parser classifies it as not extruding; every other G1
\* line with E has an E strictly greater than the one emitted before it and is
\* classified as extruding.
C26_FirstPointIsNotExtruding ==
    (op = "parsed" /\ args.emitted) =>
        /\ Cardinality({i \in 1..Len(args.gcode) : IsFirstPointLine(args.gcode[i])})
              = PathCount(args.layers)
        /\ \A k \in MoveIndexes :
              LET move == result.commands[k]
                  line == args.gcode[move.line + 1]
              IN HasE(line) =>
                    IF IsFirstPointLine(line)
                    THEN line.E = LastEBefore(args.gcode, move.line + 1) /\ ~move.extruding
                    ELSE line.E > LastEBefore(args.gcode, move.line + 1) /\ move.extruding

\* an emitted program was parsed in which the first point of a later path
\* repeats an E above 0
C26_Witness ==
    /\ op = "parsed"
    /\ args.emitted
    /\ \E k \in MoveIndexes :
          /\ IsFirstPointLine(args.gcode[result.commands[k].line + 1])
          /\ result.commands[k].to.e > 0
          /\ ~result.commands[k].extruding
    /\ \E k \in MoveIndexes : result.commands[k].extruding

\* the line of the k-th layer's comment in an emitted program
LayerCommentLine(gcode, k) ==
    LET marks == {j \in 1..Len(gcode) : gcode[j].cmd = ";" /\ gcode[j].text = "Layer"}
    IN CHOOSE j \in marks : Cardinality({m \in marks : m <= j}) = k

\* C27: parsing a program emitted by generateGCode or generateGCodeWithSequences
\* for a list of n layers gives getLayerCount() = n, and every move emitted
\* inside the block of layer k is assigned layers[k].layerNum + 1; the setup
\* commands before the first layer comment are layer 0 and are not counted.
C27_RoundTripKeepsLayers ==
    (op = "parsed" /\ args.emitted /\ Len(args.gcode) > 0) =>
        /\ getLayerCount(result) = Len(args.layers)
        /\ \A c \in 1..Len(result.commands) :
              LET i == result.commands[c].line + 1
              IN /\ i < LayerCommentLine(args.gcode, 1) => result.commands[c].layer = 0
                 /\ \A k \in 1..Len(args.layers) :
                       (/\ i > LayerCommentLine(args.gcode, k)
                        /\ (k < Len(args.layers) => i < LayerCommentLine(args.gcode, k + 1)))
                       => result.commands[c].layer = args.layers[k].layerNum + 1

\* a program of several layers was parsed, with setup commands in layer 0 and
\* moves in the last layer
C27_Witness ==
    /\ op = "parsed"
    /\ args.emitted
    /\ Len(args.layers) > 2
    /\ getLayerCount(result) = Len(args.layers)
    /\ result.commands[1].layer = 0
    /\ \E c \in MoveIndexes :
          /\ result.commands[c].extruding
          /\ result.commands[c].layer = args.layers[Len(args.layers)].layerNum + 1

(***************************************************************************)
(* PrinterSimulator.js: playback.  The simulator is a record of the fields *)
(* that steer playback, of the callbacks it has scheduled, and of what its *)
(* last call did.                                                          *)
(***************************************************************************)
batchSize == 10000      \* quickPrint: commands per batch
maxAccumulator == 1000  \* animate: the most commands one frame of fast mode processes

noBatch == [pending |-> FALSE, processedCount |-> 0, totalCommands |-> 0]

\* the constructor; frames counts the animate callbacks waiting for the next
\* display frame, quickTimers the setTimeout of playSimulation, batch is the
\* processBatch callback waiting for the next display frame; executed,
\* undefinedCommand, completed and animateRuns tell what the last call did
newSimulator ==
    [currentCommandIndex |-> 0,
     isPlaying |-> FALSE,
     isHeating |-> FALSE,
     isQuickPrinting |-> FALSE,
     frames |-> 0,
     quickTimers |-> 0,
     batch |-> noBatch,
     playDisabled |-> FALSE,
     afterReset |-> FALSE,
     executed |-> 0,
     undefinedCommand |-> FALSE,
     completed |-> FALSE,
     animateRuns |-> 0]

\* a new call or callback begins
entering(sim) ==
    [sim EXCEPT !.executed = 0, !.undefinedCommand = FALSE, !.completed = FALSE,
                !.animateRuns = 0]

\* lines 576-736; n is the number of commands the frame's time allows (line 634
\* or 697); the frame is rescheduled at line 735
animate(sim, cmds, n) ==
    LET run == [sim EXCEPT !.animateRuns = @ + 1]
    IN IF ~run.isPlaying \/ run.currentCommandIndex >= Len(cmds)
       THEN IF run.currentCommandIndex >= Len(cmds)
            THEN [run EXCEPT !.isPlaying = FALSE, !.completed = TRUE, !.playDisabled = FALSE]
            ELSE run
       ELSE LET last == Min(run.currentCommandIndex + n, Len(cmds))
            IN [run EXCEPT !.executed = @ + (last - run.currentCommandIndex),
                           !.currentCommandIndex = last,
                           !.frames = @ + 1]

\* lines 527-550: play runs animate itself; lastFrameTime = 0 makes the time of
\* this first frame 0
play(sim, cmds) == animate([sim EXCEPT !.isPlaying = TRUE], cmds, 0)

\* lines 555-558
pause(sim) == [sim EXCEPT !.isPlaying = FALSE]

\* lines 564-571; resetTemperature clears the heat-up interval (lines 1760-1765)
reset(sim) == [pause(sim) EXCEPT !.currentCommandIndex = 0, !.isHeating = FALSE]

\* lines 1517-1589: one batch; commands[i] is read from the list loaded now,
\* and executeCommand(undefined) throws a TypeError that ends the callback
processBatch(sim, cmds) ==
    LET from == sim.batch.processedCount
        endIndex == Min(from + batchSize, sim.batch.totalCommands)
        valid == Min(endIndex, Len(cmds))
        ran == [sim EXCEPT !.executed = @ + Max(valid - from, 0),
                           !.currentCommandIndex = IF valid > from THEN valid ELSE @]
    IN IF endIndex > Len(cmds)
       THEN [ran EXCEPT !.undefinedCommand = TRUE, !.batch = noBatch]
       ELSE IF endIndex >= sim.batch.totalCommands
            THEN [ran EXCEPT !.isQuickPrinting = FALSE, !.completed = TRUE,
                             !.playDisabled = FALSE, !.batch = noBatch]
            ELSE [ran EXCEPT !.batch = [pending |-> TRUE, processedCount |-> endIndex,
                                        totalCommands |-> sim.batch.totalCommands]]

\* lines 1498-1592
quickPrint(sim, cmds) ==
    IF Len(cmds) = 0 THEN sim
    ELSE processBatch([sim EXCEPT !.currentCommandIndex = 0,
                                  !.isQuickPrinting = TRUE,
                                  !.batch = [pending |-> FALSE, processedCount |-> 0,
                                             totalCommands |-> Len(cmds)]],
                      cmds)

\* the animate callbacks of one display frame, one after the other; the first
\* sees the time since the last frame, the others no time at all
RECURSIVE runFrames(_, _, _, _)
runFrames(sim, cmds, k, n) ==
    IF k = 0 THEN sim ELSE runFrames(animate(sim, cmds, n), cmds, k - 1, 0)

(***************************************************************************)
(* SpecSim: the user's requests, the timers and the display frames in any  *)
(* order                                                                   *)
(***************************************************************************)
MaxFrames == 2          \* play is called while fewer than MaxFrames frames wait

EmptyMoves == <<Plain("G28")>>
ShortProgram == <<G0(0, 0), G1E(1000, 0, 3)>>
LongProgram == [i \in 1..(batchSize + 1) |-> G0(0, 0)]

\* args: stepMode of main.js, and the speed, which decides how many commands a
\* frame processes: at slow speed one at most, at full speed up to maxAccumulator
FrameSteps(speed) == IF speed = "slow" THEN {0, 1} ELSE {0, maxAccumulator}

InitSim ==
    /\ loadedModels = <<>>
    /\ mesh = <<>>
    /\ layerHeight = defaultLayerHeight
    /\ topBottomLayers = defaultTopBottomLayers
    /\ nozzleDiameter = defaultNozzleDiameter
    /\ currentGCode = <<>>
    /\ toast = noToast
    /\ op = "idle"
    /\ \/ /\ commands = loadCommands(parse(ShortProgram))
          /\ args \in {[stepMode |-> s, speed |-> "slow"] : s \in BOOLEAN}
       \/ /\ commands = loadCommands(parse(LongProgram))
          /\ args = [stepMode |-> FALSE, speed |-> "fast"]
    /\ result = newSimulator

SimFrame == UNCHANGED <<loadedModels, slicerVars, currentGCode, args>>

\* main.js loadGCode, lines 1141-1183
LoadGCode ==
    /\ \E p \in {EmptyMoves, ShortProgram} :
          /\ Len(parse(p)) > 0
          /\ commands' = loadCommands(parse(p))
    /\ result' = [entering(result) EXCEPT !.currentCommandIndex = 0, !.playDisabled = FALSE,
                                          !.afterReset = FALSE]
    /\ op' = "loadGCode"
    /\ UNCHANGED toast
    /\ SimFrame

\* main.js playSimulation, lines 1270-1317; the button is disabled until the
\* print ends, is paused or is reset
PlaySimulation ==
    /\ ~result.playDisabled
    /\ result.quickTimers = 0 /\ ~result.batch.pending
    /\ op' = "playSimulation"
    /\ IF Len(commands) = 0
       THEN /\ toast' = [type |-> "error", message |-> "Please load a G-code file first!"]
            /\ result' = entering(result)
       ELSE /\ UNCHANGED toast
            /\ \E quickPrintMode \in BOOLEAN :
                  result' = IF quickPrintMode
                            THEN [entering(result) EXCEPT !.playDisabled = TRUE,
                                                          !.afterReset = FALSE,
                                                          !.quickTimers = @ + 1]
                            ELSE [entering(result) EXCEPT !.playDisabled = TRUE,
                                                          !.afterReset = FALSE,
                                                          !.isHeating = TRUE]
    /\ UNCHANGED commands
    /\ SimFrame

\* PrinterSimulator.js lines 1741-1751: the heat-up ends and its callback plays
HeatupComplete ==
    /\ result.isHeating
    /\ result.frames < MaxFrames
    /\ result' = play([entering(result) EXCEPT !.isHeating = FALSE], commands)
    /\ op' = "heatupComplete"
    /\ UNCHANGED <<commands, toast>>
    /\ SimFrame

\* main.js lines 1297-1304: the timer of playSimulation starts the quick print
QuickPrintTimer ==
    /\ result.quickTimers > 0
    /\ result' = quickPrint([entering(result) EXCEPT !.quickTimers = @ - 1], commands)
    /\ op' = "quickPrint"
    /\ UNCHANGED <<commands, toast>>
    /\ SimFrame

\* main.js pauseSimulation, lines 1323-1329
PauseSimulation ==
    /\ result.isPlaying
    /\ result' = [pause(entering(result)) EXCEPT !.playDisabled = FALSE]
    /\ op' = "pauseSimulation"
    /\ UNCHANGED <<commands, toast>>
    /\ SimFrame

\* main.js resetSimulation, lines 1334-1343
ResetSimulation ==
    /\ result' = [reset(entering(result)) EXCEPT !.playDisabled = FALSE, !.afterReset = TRUE]
    /\ op' = "resetSimulation"
    /\ UNCHANGED <<commands, toast>>
    /\ SimFrame

\* main.js playLearningMode, lines 2909-2925
PlayLearningMode ==
    /\ op' = "playLearningMode"
    /\ IF Len(commands) = 0
       THEN /\ toast' = [type |-> "error", message |-> "Please generate a shape first!"]
            /\ result' = entering(result)
       ELSE /\ UNCHANGED toast
            /\ IF result.isPlaying
               THEN result' = pause(entering(result))
               ELSE /\ result.frames < MaxFrames
                    /\ result' = play([entering(result) EXCEPT !.afterReset = FALSE], commands)
    /\ UNCHANGED commands
    /\ SimFrame

\* main.js stepForward, lines 369-390
StepForward ==
    /\ args.stepMode
    /\ result.currentCommandIndex < Len(commands)
    /\ result' = [pause(entering(result)) EXCEPT
                     !.executed = 1,
                     !.currentCommandIndex = @ + 1,
                     !.afterReset = FALSE]
    /\ op' = "stepForward"
    /\ UNCHANGED <<commands, toast>>
    /\ SimFrame

\* main.js stepBack, lines 395-421
StepBack ==
    /\ args.stepMode
    /\ result.currentCommandIndex > 0
    /\ result' = [reset(entering(result)) EXCEPT
                     !.executed = result.currentCommandIndex - 1,
                     !.currentCommandIndex = result.currentCommandIndex - 1,
                     !.afterReset = FALSE]
    /\ op' = "stepBack"
    /\ UNCHANGED <<commands, toast>>
    /\ SimFrame

\* a display frame runs every callback that waits for it: the animate callbacks
\* and the quick print's next batch
DisplayFrame ==
    /\ result.frames > 0 \/ result.batch.pending
    /\ \E n \in FrameSteps(args.speed) :
          LET animated == runFrames([entering(result) EXCEPT !.frames = 0], commands,
                                    result.frames, n)
          IN result' = IF result.batch.pending THEN processBatch(animated, commands)
                       ELSE animated
    /\ op' = "displayFrame"
    /\ UNCHANGED <<commands, toast>>
    /\ SimFrame

NextSim ==
    \/ LoadGCode
    \/ PlaySimulation
    \/ HeatupComplete
    \/ QuickPrintTimer
    \/ PauseSimulation
    \/ ResetSimulation
    \/ PlayLearningMode
    \/ StepForward
    \/ StepBack
    \/ DisplayFrame

SpecSim == InitSim /\ [][NextSim]_vars

\* the index never leaves the loaded program (the part of C28 that holds)
IndexWithinProgram ==
    result.currentCommandIndex >= 0 /\ result.currentCommandIndex <= Len(commands)

\* C28: under any interleaving of loadCommands, play, pause, reset, steps, frames
\* and quick-print batches, currentCommandIndex stays within 0..commands.length
\* of the loaded program and a command is only executed at an index below
\* commands.length.
C28_IndexAndExecutionWithinProgram ==
    /\ IndexWithinProgram
    /\ ~result.undefinedCommand

\* C29: at most one animation chain is active: after any sequence of play and
\* pause calls, a display frame runs animate() at most once.
C29_OneAnimationChain ==
    /\ result.frames <= 1
    /\ result.animateRuns <= 1

\* C30: after reset, until the next play or quick-print request, the index
\* stays 0, no command is executed (so no geometry is added) and onComplete is
\* not fired, whatever timer, frame or batch of the earlier run was pending.
C30_NothingContinuesAfterReset ==
    result.afterReset =>
        /\ result.currentCommandIndex = 0
        /\ result.executed = 0
        /\ ~result.completed

====
